---- MODULE Spec2Model ----
(***************************************************************************)
(* Model of five subsystems of the storage engine, each with its own       *)
(* variables and its own specifications; a specification of one subsystem  *)
(* leaves the variables of the others at their unused values.              *)
(*                                                                         *)
(* The hierarchical lock manager (LockManager, LockRequestQueue) and its   *)
(* deadlock detector.  Every API call (LockTable, LockRow, UnlockTable,    *)
(* UnlockRow) runs under the mutex of the queue it works on, from its      *)
(* first statement to its return or to its first wait on the queue's       *)
(* condition variable, so each call is one action; a blocked caller's      *)
(* re-check after a wake-up (the body of the wait loop) is the action      *)
(* WaitLoop.  A detector tick (graph construction, cycle search, victim    *)
(* abortion) is one action.  SpecLatch runs the same calls one mutex       *)
(* acquisition at a time: every thread's position, the mutexes it holds    *)
(* and its waits on the condition variables are state.                     *)
(*                                                                         *)
(* The buffer pool (three sources of BufferPoolManagerInstance, chosen by  *)
(* the variable version) with its replacers (LRUKReplacer, LRUReplacer),   *)
(* the replacer on its own, and the ParallelBufferPoolManager over several *)
(* instances.  A call holds the pool's latch throughout, or is run alone   *)
(* where the source takes none, so each call is one action.                *)
(*                                                                         *)
(* The disk-based extendible hash table (two sources of                    *)
(* ExtendibleHashTable, chosen by the variable table_version) over its     *)
(* directory page and bucket pages.  Each section between WLock and        *)
(* WUnlock of the table latch is one action.                               *)
(*                                                                         *)
(* The B+ tree index (two sources of BPlusTree, chosen by the variable     *)
(* tree_version) over its leaf and internal pages.  In SpecTree a call of  *)
(* Insert or Remove runs alone and is one action.  SpecCrab runs the calls *)
(* of several threads one latch acquisition at a time: tree_latch_, the    *)
(* latch of every page and every thread's position on its way down the     *)
(* tree are state.                                                         *)
(***************************************************************************)
EXTENDS Integers, Sequences, FiniteSets, TLC

\* ---------------------------------------------------------------- bounds
NumTxns == 3
NumTables == 2
NumRows == 1
\* budgets of steps (API calls, detector ticks, commits) of the three
\* specifications
MaxCalls == 5
MaxDeadlockCalls == 6
MaxRowCalls == 5
\* transactions acting in SpecRow
NumRowTxns == 2

Txns == 1..NumTxns
Tables == 1..NumTables
\* rows live in table 1; a row is identified by (oid, rid)
TableRes == {[on_table |-> TRUE, oid |-> o, rid |-> 0] : o \in Tables}
RowRes == {[on_table |-> FALSE, oid |-> 1, rid |-> i] : i \in 1..NumRows}
Resources == TableRes \cup RowRes

INVALID_TXN_ID == -1

\* enum class LockMode { SHARED, EXCLUSIVE, INTENTION_SHARED,
\*                       INTENTION_EXCLUSIVE, SHARED_INTENTION_EXCLUSIVE }
LockMode == {"S", "X", "IS", "IX", "SIX"}
ModeCode(m) ==
  CASE m = "S" -> 0 [] m = "X" -> 1 [] m = "IS" -> 2 [] m = "IX" -> 3
    [] m = "SIX" -> 4 [] OTHER -> -1

TransactionState == {"GROWING", "SHRINKING", "COMMITTED", "ABORTED"}
IsolationLevel == {"READ_UNCOMMITTED", "READ_COMMITTED", "REPEATABLE_READ"}
AbortReason == {"LOCK_ON_SHRINKING", "LOCK_SHARED_ON_READ_UNCOMMITTED",
                "ATTEMPTED_INTENTION_LOCK_ON_ROW",
                "ATTEMPTED_UNLOCK_BUT_NO_LOCK_HELD",
                "TABLE_UNLOCKED_BEFORE_UNLOCKING_ROWS",
                "TABLE_LOCK_NOT_PRESENT", "INCOMPATIBLE_UPGRADE",
                "UPGRADE_CONFLICT"}

VARIABLES
  request_queue,    \* resource -> sequence of lock requests
  upgrading,        \* resource -> txn id of the upgrading txn, or INVALID_TXN_ID
  arrival,          \* resource -> txn ids of the queued requests, in arrival order
  state,            \* txn -> TransactionState
  isolation_level,  \* txn -> IsolationLevel
  table_lock_set,   \* txn -> mode -> set of table oids
  row_lock_set,     \* txn -> mode -> set of row resources
  waiting,          \* txn -> the resource its thread is blocked on, or NoRes
  waits_for,        \* txn -> sorted sequence of txn ids (the graph's edges)
  victims,          \* txn ids aborted by the last detector tick, in order
  result,           \* outcome of the last call: return value or abort reason
  calls             \* number of API calls made so far

lock_vars == <<request_queue, upgrading, arrival, state, isolation_level,
               table_lock_set, row_lock_set, waiting, waits_for, victims,
               result, calls>>

\* the buffer pool (BufferPoolManagerInstance) and its replacer
VARIABLES
  version,            \* which of the three BufferPoolManagerInstance sources runs
  pool_size,          \* pool_size_: number of frames
  num_instances,      \* num_instances_: 1 unless part of a parallel pool
  pages,              \* frame -> Page (page_id_, pin_count_, is_dirty_, data_)
  page_table,         \* page id -> frame, or NO_FRAME when absent
  free_list,          \* free_list_: sequence of frames
  disk,               \* page id -> bytes the disk manager holds
  next_page_id,       \* next_page_id_
  durable,            \* page id -> bytes last unpinned as dirty, or NO_DATA
  round_trip,         \* page id -> how far NewPage, write, unpin, flush has got
  pool_result,        \* outcome of the last call
  pool_calls,         \* number of calls made so far
  k_,                 \* LRUKReplacer::k_
  replacer_size,      \* LRUKReplacer::replacer_size_
  accesss_history,    \* frame -> sequence of access timestamps, oldest first
  evictable,          \* frame -> evictable_ flag
  current_timestamp,  \* current_timestamp_
  access_log,         \* frame -> timestamps of its accesses since it last was cleared
  list_               \* LRUReplacer::list_: unpinned frames, oldest first

replacer_vars == <<k_, replacer_size, accesss_history, evictable,
                   current_timestamp, access_log, list_>>

pool_vars == <<version, pool_size, num_instances, pages, page_table, free_list,
               disk, next_page_id, durable, round_trip, pool_result, pool_calls,
               replacer_vars>>

\* the parallel buffer pool (ParallelBufferPoolManager)
VARIABLES
  bpms,               \* bpms_: instance index -> state of that instance
  page_instance_map,  \* page_instance_map_: page id -> instance index
  cur_index,          \* cur_index: where NewPgImp starts its round
  routed              \* the last call, and the instance that served it

parallel_vars == <<bpms, page_instance_map, cur_index, routed>>

\* the extendible hash table (ExtendibleHashTable over a HashTableDirectoryPage
\* and HashTableBucketPages)
VARIABLES
  table_version,      \* which of the two ExtendibleHashTable sources runs
  global_depth,       \* HashTableDirectoryPage::global_depth_
  bucket_page_ids,    \* bucket_page_ids_: directory slot -> page id
  local_depths,       \* local_depths_: directory slot -> local depth
  bucket_pages,       \* page id -> the bucket page, or NO_PAGE
  table_next_page_id, \* the page id the next NewPage returns
  pending,            \* thread -> the call it makes next, having released the latch
  table_result,       \* outcome of the last step
  table_calls         \* number of steps made so far

\* the lock manager's threads and mutexes (SpecLatch)
VARIABLES
  pc,                 \* thread -> the statement it is at
  held,               \* thread -> the mutexes it holds, in acquisition order
  cur,                \* thread -> the call it is in (operation, mode, resource)
  scanned             \* queues BuildWaitsForGraph has visited in this tick

latch_vars == <<pc, held, cur, scanned>>

\* the B+ tree (BPlusTree over BPlusTreeLeafPage and BPlusTreeInternalPage)
VARIABLES
  tree_version,       \* which of the BPlusTree sources runs
  leaf_max_size,      \* leaf_max_size_
  internal_max_size,  \* internal_max_size_
  root_page_id,       \* root_page_id_
  tree_pages,         \* page id -> the tree page stored there
  tree_next_page_id,  \* the page id the next NewPage returns
  deleted_pages,      \* page ids handed to DeletePage
  tree_result,        \* the last completed call and its outcome
  tree_calls,         \* number of calls made so far
  tree_latch,         \* tree_latch_: its readers and its writer
  page_latch,         \* page id -> readers and writer of the page's latch
  walk                \* thread -> the call it is in and how far it has got

tree_vars == <<tree_version, leaf_max_size, internal_max_size, root_page_id,
               tree_pages, tree_next_page_id, deleted_pages, tree_result,
               tree_calls, tree_latch, page_latch, walk>>

table_vars == <<table_version, global_depth, bucket_page_ids, local_depths,
                bucket_pages, table_next_page_id, pending, table_result,
                table_calls>>

\* the variables the lock manager does not touch
outside_lock == <<pool_vars, parallel_vars, table_vars, latch_vars, tree_vars>>

\* the variables the buffer pool and the replacer do not touch
outside_pool == <<lock_vars, parallel_vars, table_vars, latch_vars, tree_vars>>

\* the variables the hash table does not touch
outside_table == <<lock_vars, pool_vars, parallel_vars, latch_vars, tree_vars>>

\* the variables the B+ tree does not touch
outside_tree == <<lock_vars, pool_vars, parallel_vars, table_vars, latch_vars>>

vars == <<lock_vars, pool_vars, parallel_vars, table_vars, latch_vars, tree_vars>>

\* no B+ tree has been constructed
TreeUnused ==
  /\ tree_version = "none"
  /\ leaf_max_size = 0
  /\ internal_max_size = 0
  /\ root_page_id = 0
  /\ tree_pages = <<>>
  /\ tree_next_page_id = 0
  /\ deleted_pages = {}
  /\ tree_result = <<>>
  /\ tree_calls = 0
  /\ tree_latch = <<>>
  /\ page_latch = <<>>
  /\ walk = <<>>

\* the lock manager's calls are run one at a time: no thread is inside one
LatchUnused ==
  /\ pc = <<>>
  /\ held = <<>>
  /\ cur = <<>>
  /\ scanned = {}

\* no hash table has been constructed
TableUnused ==
  /\ table_version = "none"
  /\ global_depth = 0
  /\ bucket_page_ids = <<>>
  /\ local_depths = <<>>
  /\ bucket_pages = <<>>
  /\ table_next_page_id = 0
  /\ pending = <<>>
  /\ table_result = <<>>
  /\ table_calls = 0

\* no parallel buffer pool has been constructed
ParallelUnused ==
  /\ bpms = <<>>
  /\ page_instance_map = <<>>
  /\ cur_index = 0
  /\ routed = <<>>

\* no buffer pool has been constructed
PoolUnused ==
  /\ version = "none"
  /\ pool_size = 0
  /\ num_instances = 0
  /\ pages = <<>>
  /\ page_table = <<>>
  /\ free_list = <<>>
  /\ disk = <<>>
  /\ next_page_id = 0
  /\ durable = <<>>
  /\ round_trip = <<>>
  /\ pool_result = <<>>
  /\ pool_calls = 0
  /\ k_ = 0
  /\ replacer_size = 0
  /\ accesss_history = <<>>
  /\ evictable = <<>>
  /\ current_timestamp = 0
  /\ access_log = <<>>
  /\ list_ = <<>>
  /\ ParallelUnused

\* "blocked on nothing"
NoRes == [on_table |-> TRUE, oid |-> 0, rid |-> 0]

\* ------------------------------------------------------- sequence helpers
Min(S) == CHOOSE x \in S : \A y \in S : x <= y
Max(S) == CHOOSE x \in S : \A y \in S : x >= y

RemoveAt(s, i) ==
  IF i < 1 \/ i > Len(s) THEN s
  ELSE SubSeq(s, 1, i - 1) \o SubSeq(s, i + 1, Len(s))

InsertAt(s, i, e) == SubSeq(s, 1, i - 1) \o <<e>> \o SubSeq(s, i, Len(s))

\* std::find_if(begin, end, pred): the first index satisfying pred, Len+1 for end()
FirstUngranted(q) ==
  LET I == {i \in 1..Len(q) : ~q[i].granted}
  IN  IF I = {} THEN Len(q) + 1 ELSE Min(I)

FindTxn(q, t) ==
  LET I == {i \in 1..Len(q) : q[i].txn_id = t}
  IN  IF I = {} THEN Len(q) + 1 ELSE Min(I)

\* the request object a blocked caller holds: its ungranted request in the queue
FindRequest(q, t) ==
  LET I == {i \in 1..Len(q) : q[i].txn_id = t /\ ~q[i].granted}
  IN  IF I = {} THEN Len(q) + 1 ELSE Min(I)

\* ------------------------------------------------------ LockRequestQueue
\* LockRequest: granted_ starts false; upgrade records Insert's insert_head flag
LockRequest(t, m, head) ==
  [txn_id |-> t, lock_mode |-> m, granted |-> FALSE, upgrade |-> head]

compatible_map_loose(m) ==
  CASE m = "IS" -> {"IS", "IX", "S", "SIX"}
    [] m = "IX" -> {"IS", "IX"}
    [] m = "S" -> {"IS", "S", "IX"}
    [] m = "SIX" -> {"IS"}
    [] OTHER -> {}

\* compatible_map_: requester mode -> modes of granted requests it tolerates
\* (EXCLUSIVE has no entry, operator[] yields the empty vector)
compatible_map(m) ==
  CASE m = "IS" -> {"IS", "IX", "S", "SIX"}
    [] m = "IX" -> {"IS", "IX"}
    [] m = "S" -> {"IS", "S"}
    [] m = "SIX" -> {"IS"}
    [] OTHER -> {}

Insert_always_head(q, request, insert_head) ==
  InsertAt(q, FirstUngranted(q), request)

\* LockRequestQueue::Insert
Insert(q, request, insert_head) ==
  IF insert_head THEN InsertAt(q, FirstUngranted(q), request)
  ELSE Append(q, request)

GrantTest_nofifo(q, i) ==
  \A j \in 1..Len(q) :
    q[j].granted => q[j].lock_mode \in compatible_map(q[i].lock_mode)

\* The grant test of IsGranted for the ungranted request at index i of q:
\* it is the first ungranted request and compatible with every request before it.
GrantTest(q, i) ==
  /\ i = FirstUngranted(q)
  /\ \A j \in 1..(i - 1) : q[j].lock_mode \in compatible_map(q[i].lock_mode)

\* LockRequestQueue::IsGranted for txn t's pending request on queue q with
\* upgrading_ = up and transaction state st.  ret: "aborted" (request erased,
\* returns true with aborted set), "granted", or "wait" (returns false).
IsGranted(q, up, t, st) ==
  LET i == FindRequest(q, t)
      up2 == IF up = t THEN INVALID_TXN_ID ELSE up
  IN  IF st = "ABORTED"
      THEN [queue |-> RemoveAt(q, i), upgrading |-> up2, ret |-> "aborted"]
      ELSE IF GrantTest(q, i)
      THEN [queue |-> [q EXCEPT ![i].granted = TRUE], upgrading |-> up2,
            ret |-> "granted"]
      ELSE [queue |-> q, upgrading |-> up, ret |-> "wait"]

\* ------------------------------------------------------------ lock sets
\* GetTableLockMode: the mode of the first set, in enum order, that holds oid
GetTableLockMode(t, oid) ==
  IF oid \in table_lock_set[t]["S"] THEN "S"
  ELSE IF oid \in table_lock_set[t]["X"] THEN "X"
  ELSE IF oid \in table_lock_set[t]["IS"] THEN "IS"
  ELSE IF oid \in table_lock_set[t]["IX"] THEN "IX"
  ELSE IF oid \in table_lock_set[t]["SIX"] THEN "SIX"
  ELSE "NONE"

\* GetRowLockMode
GetRowLockMode(t, r) ==
  IF r \in row_lock_set[t]["S"] THEN "S"
  ELSE IF r \in row_lock_set[t]["X"] THEN "X"
  ELSE "NONE"

\* upgrade_map_ and Upgradable
upgrade_map(from) ==
  CASE from = "IS" -> {"S", "X", "IX", "SIX"}
    [] from = "S" -> {"X", "SIX"}
    [] from = "IX" -> {"X", "SIX"}
    [] from = "SIX" -> {"X"}
    [] OTHER -> {}

Upgradable(from, to) == to \in upgrade_map(from)

LockPreCheck_rc_growing_only(t, mode, on_table, oid) ==
  LET st == state[t]
      iso == isolation_level[t]
      code == GetTableLockMode(t, oid)
  IN  IF ~on_table /\ mode # "S" /\ mode # "X"
        THEN "ATTEMPTED_INTENTION_LOCK_ON_ROW"
      ELSE IF iso = "READ_UNCOMMITTED" /\ mode \in {"S", "IS", "SIX"}
        THEN "LOCK_SHARED_ON_READ_UNCOMMITTED"
      ELSE IF iso = "READ_UNCOMMITTED" /\ st = "SHRINKING"
        THEN "LOCK_ON_SHRINKING"
      ELSE IF iso = "READ_COMMITTED" /\ st = "SHRINKING"
        THEN "LOCK_ON_SHRINKING"
      ELSE IF iso = "REPEATABLE_READ" /\ st = "SHRINKING"
        THEN "LOCK_ON_SHRINKING"
      ELSE IF ~on_table /\ mode = "X" /\ code \notin {"X", "IX", "SIX"}
        THEN "TABLE_LOCK_NOT_PRESENT"
      ELSE IF ~on_table /\ mode # "X" /\ code = "NONE"
        THEN "TABLE_LOCK_NOT_PRESENT"
      ELSE "OK"

LockPreCheck_any_table_lock(t, mode, on_table, oid) ==
  LET st == state[t]
      iso == isolation_level[t]
      code == GetTableLockMode(t, oid)
  IN  IF ~on_table /\ mode # "S" /\ mode # "X"
        THEN "ATTEMPTED_INTENTION_LOCK_ON_ROW"
      ELSE IF iso = "READ_UNCOMMITTED" /\ mode \in {"S", "IS", "SIX"}
        THEN "LOCK_SHARED_ON_READ_UNCOMMITTED"
      ELSE IF iso = "READ_UNCOMMITTED" /\ st = "SHRINKING"
        THEN "LOCK_ON_SHRINKING"
      ELSE IF iso = "READ_COMMITTED" /\ st = "SHRINKING"
              /\ mode \in {"X", "IX", "SIX"}
        THEN "LOCK_ON_SHRINKING"
      ELSE IF iso = "REPEATABLE_READ" /\ st = "SHRINKING"
        THEN "LOCK_ON_SHRINKING"
      ELSE IF ~on_table /\ mode = "X" /\ code = "NONE"
        THEN "TABLE_LOCK_NOT_PRESENT"
      ELSE IF ~on_table /\ mode # "X" /\ code = "NONE"
        THEN "TABLE_LOCK_NOT_PRESENT"
      ELSE "OK"

\* LockPreCheck: "OK" or the abort reason
LockPreCheck(t, mode, on_table, oid) ==
  LET st == state[t]
      iso == isolation_level[t]
      code == GetTableLockMode(t, oid)
  IN  IF ~on_table /\ mode # "S" /\ mode # "X"
        THEN "ATTEMPTED_INTENTION_LOCK_ON_ROW"
      ELSE IF iso = "READ_UNCOMMITTED" /\ mode \in {"S", "IS", "SIX"}
        THEN "LOCK_SHARED_ON_READ_UNCOMMITTED"
      ELSE IF iso = "READ_UNCOMMITTED" /\ st = "SHRINKING"
        THEN "LOCK_ON_SHRINKING"
      ELSE IF iso = "READ_COMMITTED" /\ st = "SHRINKING"
              /\ mode \in {"X", "IX", "SIX"}
        THEN "LOCK_ON_SHRINKING"
      ELSE IF iso = "REPEATABLE_READ" /\ st = "SHRINKING"
        THEN "LOCK_ON_SHRINKING"
      ELSE IF ~on_table /\ mode = "X" /\ code \notin {"X", "IX", "SIX"}
        THEN "TABLE_LOCK_NOT_PRESENT"
      ELSE IF ~on_table /\ mode # "X" /\ code = "NONE"
        THEN "TABLE_LOCK_NOT_PRESENT"
      ELSE "OK"

\* UnlockPreCheck: "OK" or the abort reason
UnlockPreCheck(t, r, from_upgrade) ==
  LET code == IF r.on_table THEN GetTableLockMode(t, r.oid)
              ELSE GetRowLockMode(t, r)
      rows == {x \in row_lock_set[t]["S"] \cup row_lock_set[t]["X"] :
                 x.oid = r.oid}
  IN  IF code = "NONE" THEN "ATTEMPTED_UNLOCK_BUT_NO_LOCK_HELD"
      ELSE IF r.on_table /\ ~from_upgrade /\ rows # {}
        THEN "TABLE_UNLOCKED_BEFORE_UNLOCKING_ROWS"
      ELSE "OK"

need_update_state_rc_shared(iso, code) ==
  \/ iso = "REPEATABLE_READ" /\ ModeCode(code) <= 1
  \/ iso = "READ_COMMITTED" /\ ModeCode(code) <= 1
  \/ iso = "READ_UNCOMMITTED" /\ ModeCode(code) = 1

\* the lambda need_update_state of UnlockTableHelper / UnlockRowHelper
need_update_state(iso, code) ==
  \/ iso = "REPEATABLE_READ" /\ ModeCode(code) <= 1
  \/ iso = "READ_COMMITTED" /\ ModeCode(code) = 1
  \/ iso = "READ_UNCOMMITTED" /\ ModeCode(code) = 1

\* ------------------------------------------------------- waits-for graph
RECURSIVE Repeat(_, _)
Repeat(x, n) == IF n <= 0 THEN <<>> ELSE <<x>> \o Repeat(x, n - 1)

\* number of AddEdge(u, v) calls of BuildWaitsForGraph: one per queue position
\* pair (granted request of u, later ungranted request of v)
EdgeCount(u, v) ==
  LET P(r) == {p \in (1..Len(request_queue[r])) \X (1..Len(request_queue[r])) :
                 /\ p[1] < p[2]
                 /\ request_queue[r][p[1]].granted
                 /\ request_queue[r][p[1]].txn_id = u
                 /\ ~request_queue[r][p[2]].granted
                 /\ request_queue[r][p[2]].txn_id = v}
      RECURSIVE Sum(_)
      Sum(R) == IF R = {} THEN 0
                ELSE LET r == CHOOSE x \in R : TRUE
                     IN  Cardinality(P(r)) + Sum(R \ {r})
  IN  Sum(Resources)

RECURSIVE SortedAdj(_, _)
\* the vector waits_for_[u] after std::sort: targets in ascending order
SortedAdj(u, v) ==
  IF v > NumTxns THEN <<>>
  ELSE Repeat(v, EdgeCount(u, v)) \o SortedAdj(u, v + 1)

\* BuildWaitsForGraph (a txn without edges is an absent key: the empty vector)
BuildWaitsForGraph == [u \in Txns |-> SortedAdj(u, 1)]

\* RemoveEdge: erases the first occurrence of t2 in waits_for_[t1]
RemoveEdge(wf, t1, t2) ==
  LET I == {i \in 1..Len(wf[t1]) : wf[t1][i] = t2}
  IN  IF I = {} THEN wf ELSE [wf EXCEPT ![t1] = RemoveAt(@, Min(I))]

RECURSIVE EdgesFrom(_, _)
\* GetEdgeList: the pairs (u, v) for every v of waits_for_[u]; the keys are
\* listed in ascending order here (the unordered_map fixes no order)
EdgesFrom(wf, u) ==
  IF u > NumTxns THEN <<>>
  ELSE [i \in 1..Len(wf[u]) |-> <<u, wf[u][i]>>] \o EdgesFrom(wf, u + 1)

GetEdgeList(wf) == EdgesFrom(wf, 1)

RECURSIVE Dfs(_, _, _), DfsLoop(_, _, _, _)
Dfs_closing_node(wf, u, d) ==
  LET d1 == [d EXCEPT !.path = Append(@, u)]
  IN  IF d.colors[u] = 1
      THEN [d1 EXCEPT !.max_txn_id = u, !.found = TRUE]
      ELSE LET d2 == DfsLoop(wf, u, 1, [d1 EXCEPT !.colors[u] = 1])
           IN  IF d2.found THEN d2
               ELSE [d2 EXCEPT !.colors[u] = 2,
                               !.path = SubSeq(@, 1, Len(@) - 1)]

\* Dfs(u, colors, path, max_txn_id) over the graph wf; d carries the three
\* by-reference arguments and the return value (found)
Dfs(wf, u, d) ==
  LET d1 == [d EXCEPT !.path = Append(@, u)]
  IN  IF d.colors[u] = 1
      THEN LET first == Min({i \in 1..Len(d1.path) : d1.path[i] = u})
               onCycle == {d1.path[i] : i \in first..Len(d1.path)}
           IN  [d1 EXCEPT !.max_txn_id = Max({@} \cup onCycle), !.found = TRUE]
      ELSE LET d2 == DfsLoop(wf, u, 1, [d1 EXCEPT !.colors[u] = 1])
           IN  IF d2.found THEN d2
               ELSE [d2 EXCEPT !.colors[u] = 2,
                               !.path = SubSeq(@, 1, Len(@) - 1)]

\* the loop "for (auto v : waits_for_[u])" of Dfs, from position i on
DfsLoop(wf, u, i, d) ==
  IF i > Len(wf[u]) THEN d
  ELSE LET v == wf[u][i]
       IN  IF d.colors[v] # 2
           THEN LET d2 == Dfs(wf, v, d)
                IN  IF d2.found THEN d2 ELSE DfsLoop(wf, u, i + 1, d2)
           ELSE DfsLoop(wf, u, i + 1, d)

RECURSIVE HasCycleLoop(_, _, _)
\* the loop of HasCycle over the keys of colors (a std::map: ascending ids),
\* each root with a fresh path
HasCycleLoop(wf, k, d) ==
  IF k > NumTxns THEN d
  ELSE IF d.colors[k] = 2 THEN HasCycleLoop(wf, k + 1, d)
  ELSE LET d2 == Dfs(wf, k, [d EXCEPT !.path = <<>>])
       IN  IF d2.found THEN d2 ELSE HasCycleLoop(wf, k + 1, d2)

\* HasCycle: [found, max_txn_id]; *txn_id starts as INVALID_TXN_ID
HasCycle(wf) ==
  HasCycleLoop(wf, 1, [colors |-> [t \in Txns |-> 0], path |-> <<>>,
                       max_txn_id |-> INVALID_TXN_ID, found |-> FALSE])

RECURSIVE RemoveEdgesTo(_, _, _)
\* "for (auto &[k, v] : waits_for_) RemoveEdge(k, txn_id)"
RemoveEdgesTo(wf, k, txn_id) ==
  IF k > NumTxns THEN wf
  ELSE RemoveEdgesTo(RemoveEdge(wf, k, txn_id), k + 1, txn_id)

RECURSIVE DetectLoop(_, _)
\* the loop "while (HasCycle(&txn_id))" of RunCycleDetection:
\* erase the victim's key, remove the edges to it, abort it
DetectLoop(wf, vs) ==
  LET h == HasCycle(wf)
  IN  IF ~h.found THEN [waits_for |-> wf, victims |-> vs]
      ELSE DetectLoop(RemoveEdgesTo([wf EXCEPT ![h.max_txn_id] = <<>>], 1,
                                    h.max_txn_id),
                      Append(vs, h.max_txn_id))

\* ---------------------------------------------------------------- actions
LockInit(levels) ==
  /\ request_queue = [r \in Resources |-> <<>>]
  /\ upgrading = [r \in Resources |-> INVALID_TXN_ID]
  /\ arrival = [r \in Resources |-> <<>>]
  /\ state = [t \in Txns |-> "GROWING"]
  /\ isolation_level \in levels
  /\ table_lock_set = [t \in Txns |-> [m \in LockMode |-> {}]]
  /\ row_lock_set = [t \in Txns |-> [m \in {"S", "X"} |-> {}]]
  /\ waiting = [t \in Txns |-> NoRes]
  /\ waits_for = [t \in Txns |-> <<>>]
  /\ victims = <<>>
  /\ result = "none"
  /\ calls = 0

\* the lock manager alone: no buffer pool is constructed
InitWith(levels) ==
  LockInit(levels) /\ PoolUnused /\ TableUnused /\ LatchUnused /\ TreeUnused

\* a lock manager nobody calls
LockUnused == LockInit({[t \in Txns |-> "REPEATABLE_READ"]}) /\ LatchUnused

\* txn->SetState(ABORTED); throw TransactionAbortException(txn_id, reason)
Throw(t, reason) ==
  /\ state' = [state EXCEPT ![t] = "ABORTED"]
  /\ result' = reason
  /\ UNCHANGED <<request_queue, upgrading, arrival, table_lock_set,
                 row_lock_set, waiting>>

EraseLock_keep(ls, t, m, r) == ls

\* the lock sets with resource r erased from / inserted into mode m's set
EraseLock(ls, t, m, r) ==
  IF r.on_table
  THEN [tls |-> [ls.tls EXCEPT ![t][m] = @ \ {r.oid}], rls |-> ls.rls]
  ELSE [tls |-> ls.tls, rls |-> [ls.rls EXCEPT ![t][m] = @ \ {r}]]

InsertLock(ls, t, m, r) ==
  IF r.on_table
  THEN [tls |-> [ls.tls EXCEPT ![t][m] = @ \cup {r.oid}], rls |-> ls.rls]
  ELSE [tls |-> ls.tls, rls |-> [ls.rls EXCEPT ![t][m] = @ \cup {r}]]

LockSets == [tls |-> table_lock_set, rls |-> row_lock_set]

RemoveTxn(a, t) == SelectSeq(a, LAMBDA x : x # t)

\* The wait loop "while (!queue->IsGranted(request, txn, aborted)) cv_.wait"
\* entered with queue q, upgrading_ up and lock sets ls: one evaluation of
\* IsGranted, then return (!aborted) or wait
Await(t, r, q, up, ls, arr) ==
  LET g == IsGranted(q, up, t, state[t])
      m == q[FindRequest(q, t)].lock_mode
      ls2 == IF g.ret = "granted" THEN InsertLock(ls, t, m, r) ELSE ls
  IN  /\ request_queue' = [request_queue EXCEPT ![r] = g.queue]
      /\ upgrading' = [upgrading EXCEPT ![r] = g.upgrading]
      /\ arrival' = [arrival EXCEPT ![r] =
                       IF g.ret = "aborted" THEN RemoveTxn(arr, t) ELSE arr]
      /\ table_lock_set' = ls2.tls
      /\ row_lock_set' = ls2.rls
      /\ waiting' = [waiting EXCEPT ![t] = IF g.ret = "wait" THEN r ELSE NoRes]
      /\ result' = CASE g.ret = "granted" -> "true"
                     [] g.ret = "aborted" -> "false"
                     [] OTHER -> "wait"
      /\ UNCHANGED state

\* "other txn is upgrading": the test queue->upgrading_ != INVALID_TXN_ID
UpgradeConflict_open(up) == FALSE

UpgradeConflict(up) == up # INVALID_TXN_ID

\* the body shared by LockTable and LockRow (the two differ in the lock set
\* and the queue map they use)
Lock(t, lock_mode, r) ==
  LET reason == LockPreCheck(t, lock_mode, r.on_table, r.oid)
      code == IF r.on_table THEN GetTableLockMode(t, r.oid)
              ELSE GetRowLockMode(t, r)
      held_lock_already == code # "NONE"
      q == request_queue[r]
      request == LockRequest(t, lock_mode, held_lock_already)
      \* Unlock*Helper(txn, oid, from_upgrade = true): lock set and queue only
      q1 == IF held_lock_already THEN RemoveAt(q, FindTxn(q, t)) ELSE q
      ls1 == IF held_lock_already THEN EraseLock(LockSets, t, code, r)
             ELSE LockSets
      up1 == IF held_lock_already THEN t ELSE upgrading[r]
      arr1 == Append(IF held_lock_already THEN RemoveTxn(arrival[r], t)
                     ELSE arrival[r], t)
  IN  /\ waiting[t] = NoRes
      /\ calls' = calls + 1
      /\ UNCHANGED <<isolation_level, waits_for, victims>>
      /\ IF reason # "OK" THEN Throw(t, reason)
         ELSE IF held_lock_already /\ code = lock_mode
           THEN /\ result' = "true"
                /\ UNCHANGED <<request_queue, upgrading, arrival, state,
                               table_lock_set, row_lock_set, waiting>>
         ELSE IF held_lock_already /\ ~Upgradable(code, lock_mode)
           THEN Throw(t, "INCOMPATIBLE_UPGRADE")
         ELSE IF held_lock_already /\ UpgradeConflict(upgrading[r])
           THEN Throw(t, "UPGRADE_CONFLICT")
         ELSE Await(t, r, Insert(q1, request, held_lock_already), up1, ls1,
                    arr1)

\* a call run alone: GetQueue, the queue's mutex and the body in one step
LockTable(t, lock_mode, oid) ==
  /\ Lock(t, lock_mode, [on_table |-> TRUE, oid |-> oid, rid |-> 0])
  /\ UNCHANGED outside_lock

LockRow(t, lock_mode, r) ==
  r \in RowRes /\ Lock(t, lock_mode, r) /\ UNCHANGED outside_lock

\* a blocked caller wakes up (notify_all or spuriously) and re-evaluates
\* IsGranted; a re-check that fails leaves everything as it was
WaitLoop(t) ==
  /\ waiting[t] # NoRes
  /\ IsGranted(request_queue[waiting[t]], upgrading[waiting[t]], t,
               state[t]).ret # "wait"
  /\ Await(t, waiting[t], request_queue[waiting[t]], upgrading[waiting[t]],
           LockSets, arrival[waiting[t]])
  /\ UNCHANGED <<isolation_level, waits_for, victims, calls>>
  /\ UNCHANGED outside_lock

\* UnlockTableHelper / UnlockRowHelper with from_upgrade = false
Unlock(t, r) ==
  LET reason == UnlockPreCheck(t, r, FALSE)
      code == IF r.on_table THEN GetTableLockMode(t, r.oid)
              ELSE GetRowLockMode(t, r)
      q == request_queue[r]
      ls == EraseLock(LockSets, t, code, r)
  IN  /\ waiting[t] = NoRes
      /\ calls' = calls + 1
      /\ UNCHANGED <<isolation_level, waits_for, victims>>
      /\ IF reason # "OK" THEN Throw(t, reason)
         ELSE /\ state' = [state EXCEPT ![t] =
                   IF /\ @ # "COMMITTED"
                      /\ @ # "ABORTED"
                      /\ need_update_state(isolation_level[t], code)
                   THEN "SHRINKING" ELSE @]
              /\ table_lock_set' = ls.tls
              /\ row_lock_set' = ls.rls
              /\ request_queue' = [request_queue EXCEPT ![r] =
                                     RemoveAt(q, FindTxn(q, t))]
              /\ arrival' = [arrival EXCEPT ![r] =
                   IF FindTxn(q, t) <= Len(q) THEN RemoveTxn(@, t) ELSE @]
              /\ result' = "true"
              /\ UNCHANGED <<upgrading, waiting>>

UnlockTable(t, oid) ==
  /\ Unlock(t, [on_table |-> TRUE, oid |-> oid, rid |-> 0])
  /\ UNCHANGED outside_lock

UnlockRow(t, r) == r \in RowRes /\ Unlock(t, r) /\ UNCHANGED outside_lock

\* one tick of RunCycleDetection; NotifyAll wakes the waiters, which WaitLoop
\* lets run at any time
RunCycleDetection ==
  LET d == DetectLoop(BuildWaitsForGraph, <<>>)
  IN  /\ calls' = calls + 1
      /\ UNCHANGED outside_lock
      /\ waits_for' = d.waits_for
      /\ victims' = d.victims
      /\ state' = [t \in Txns |->
                     IF \E i \in 1..Len(d.victims) : d.victims[i] = t
                     THEN "ABORTED" ELSE state[t]]
      /\ UNCHANGED <<request_queue, upgrading, arrival, isolation_level,
                     table_lock_set, row_lock_set, waiting, result>>

\* the transaction manager marks a running transaction committed; its locks
\* are then released through UnlockRow / UnlockTable
Commit(t) ==
  /\ waiting[t] = NoRes
  /\ state[t] \in {"GROWING", "SHRINKING"}
  /\ calls' = calls + 1
  /\ state' = [state EXCEPT ![t] = "COMMITTED"]
  /\ result' = "none"
  /\ UNCHANGED outside_lock
  /\ UNCHANGED <<request_queue, upgrading, arrival, isolation_level,
                 table_lock_set, row_lock_set, waiting, waits_for, victims>>

\* ---------------------------------------------------------- specifications
\* Spec: NumTxns transactions on the queue of one table, all five modes,
\* every transaction at the same isolation level
SameLevel == {[t \in Txns |-> l] : l \in IsolationLevel}

Init == InitWith(SameLevel)

Next ==
  \/ calls < MaxCalls /\ \E t \in Txns, m \in LockMode : LockTable(t, m, 1)
  \/ calls < MaxCalls /\ \E t \in Txns : UnlockTable(t, 1)
  \/ calls < MaxCalls /\ RunCycleDetection
  \/ \E t \in Txns : WaitLoop(t)

Spec == Init /\ [][Next]_vars

\* SpecDeadlock: NumTxns transactions taking S and X locks on NumTables
\* tables under REPEATABLE_READ, with the detector
InitDeadlock == InitWith({[t \in Txns |-> "REPEATABLE_READ"]})

NextDeadlock ==
  \/ /\ calls < MaxDeadlockCalls
     /\ \E t \in Txns, m \in {"S", "X"}, oid \in Tables : LockTable(t, m, oid)
  \/ calls < MaxDeadlockCalls /\ \E t \in Txns, oid \in Tables : UnlockTable(t, oid)
  \/ calls < MaxDeadlockCalls /\ RunCycleDetection
  \/ \E t \in Txns : WaitLoop(t)

SpecDeadlock == InitDeadlock /\ [][NextDeadlock]_vars

\* SpecRow: NumRowTxns transactions, each at any isolation level, on table 1
\* and its rows, all five modes, with commits and the detector
RowTxns == 1..NumRowTxns

InitRow ==
  InitWith({[t \in Txns |-> IF t \in RowTxns THEN f[t] ELSE "REPEATABLE_READ"] :
              f \in [RowTxns -> IsolationLevel]})

NextRow ==
  \/ calls < MaxRowCalls /\ \E t \in RowTxns, m \in LockMode : LockTable(t, m, 1)
  \/ /\ calls < MaxRowCalls
     /\ \E t \in RowTxns, m \in LockMode, r \in RowRes : LockRow(t, m, r)
  \/ calls < MaxRowCalls /\ \E t \in RowTxns : UnlockTable(t, 1)
  \/ calls < MaxRowCalls /\ \E t \in RowTxns, r \in RowRes : UnlockRow(t, r)
  \/ calls < MaxRowCalls /\ RunCycleDetection
  \/ calls < MaxRowCalls /\ \E t \in RowTxns : Commit(t)
  \/ \E t \in RowTxns : WaitLoop(t)

SpecRow == InitRow /\ [][NextRow]_vars

\* ----------------------------------------------------------- type sanity
TypeOK ==
  /\ \A r \in Resources : \A i \in 1..Len(request_queue[r]) :
       /\ request_queue[r][i].txn_id \in Txns
       /\ request_queue[r][i].lock_mode \in LockMode
  /\ \A r \in Resources : upgrading[r] \in Txns \cup {INVALID_TXN_ID}
  /\ \A t \in Txns : state[t] \in TransactionState
  /\ calls \in Nat

\* ------------------------------------------------------------ properties
\* the compatibility matrix: the unordered pairs of modes that may be held
\* together
CompatiblePairs ==
  {{"IS"}, {"IS", "IX"}, {"IS", "S"}, {"IS", "SIX"}, {"IX"}, {"S"}}

Compatible(m1, m2) == {m1, m2} \in CompatiblePairs

Granted(r) == {i \in 1..Len(request_queue[r]) : request_queue[r][i].granted}
Ungranted(r) == {i \in 1..Len(request_queue[r]) : ~request_queue[r][i].granted}

\* position of txn t in the arrival order of queue r (0 when absent)
ArrivalPos(r, t) ==
  LET I == {i \in 1..Len(arrival[r]) : arrival[r][i] = t}
  IN  IF I = {} THEN 0 ELSE Min(I)

\* C1: on every queue, any two granted requests of different transactions
\* have modes that are compatible under the IS/IX/S/SIX/X matrix.
C1_GrantedCompatible ==
  \A r \in Resources : \A i, j \in Granted(r) :
    request_queue[r][i].txn_id # request_queue[r][j].txn_id
      => Compatible(request_queue[r][i].lock_mode, request_queue[r][j].lock_mode)

\* two transactions hold compatible locks on a queue while a third waits with
\* a mode incompatible with one of them
C1_Witness ==
  \E r \in Resources : \E i, j \in Granted(r), k \in Ungranted(r) :
    /\ request_queue[r][i].txn_id # request_queue[r][j].txn_id
    /\ ~Compatible(request_queue[r][k].lock_mode, request_queue[r][i].lock_mode)

\* C2: a granted non-upgrade request never coexists with an ungranted request
\* that arrived before it on the same queue (so T3's S is not granted while
\* T2's earlier X waits), and the request at the head of a queue, with nothing
\* granted ahead of it, is granted as soon as its waiter runs (T2 after T1
\* unlocks, T3 after T2 unlocks).
C2_Fifo ==
  /\ \A r \in Resources : \A i \in Granted(r), j \in Ungranted(r) :
       ~request_queue[r][i].upgrade
         => ArrivalPos(r, request_queue[r][i].txn_id)
              < ArrivalPos(r, request_queue[r][j].txn_id)
  /\ \A t \in Txns :
       (/\ waiting[t] # NoRes
        /\ state[t] # "ABORTED"
        /\ request_queue[waiting[t]][1].txn_id = t)
         => IsGranted(request_queue[waiting[t]], upgrading[waiting[t]], t,
                      state[t]).ret = "granted"

\* T1 holds S on table 1, T2's X waits, T3's later S waits behind it
C2_Witness ==
  LET q == request_queue[[on_table |-> TRUE, oid |-> 1, rid |-> 0]]
  IN  /\ Len(q) = 3
      /\ q[1].txn_id = 1 /\ q[1].lock_mode = "S" /\ q[1].granted
      /\ q[2].txn_id = 2 /\ q[2].lock_mode = "X" /\ ~q[2].granted
      /\ q[3].txn_id = 3 /\ q[3].lock_mode = "S" /\ ~q[3].granted

\* C5: on every queue the granted requests form a prefix: no ungranted
\* request precedes a granted one.
C5_GrantedPrefix ==
  \A r \in Resources : \A i \in Ungranted(r), j \in Granted(r) : j < i

\* an upgrade request sits between a granted request and an older waiter
C5_Witness ==
  \E r \in Resources :
    /\ Len(request_queue[r]) >= 3
    /\ request_queue[r][1].granted
    /\ ~request_queue[r][2].granted /\ request_queue[r][2].upgrade
    /\ ~request_queue[r][3].granted /\ ~request_queue[r][3].upgrade

\* txn t's lock set for mode m contains resource r
Holds(t, r, m) ==
  IF r.on_table THEN r.oid \in table_lock_set[t][m]
  ELSE m \in {"S", "X"} /\ r \in row_lock_set[t][m]

\* the upgrade lattice: IS -> S, X, IX, SIX; S -> X, SIX; IX -> X, SIX; SIX -> X
AllowedUpgrades ==
  {<<"IS", "S">>, <<"IS", "X">>, <<"IS", "IX">>, <<"IS", "SIX">>,
   <<"S", "X">>, <<"S", "SIX">>, <<"IX", "X">>, <<"IX", "SIX">>,
   <<"SIX", "X">>}

PendingUpgrades(r) == {i \in Ungranted(r) : request_queue[r][i].upgrade}

\* upgrading names a transaction exactly while that transaction's upgrade
\* request is pending, and a queue has at most one pending upgrade
UpgradingPending ==
  \A r \in Resources :
    /\ Cardinality(PendingUpgrades(r)) <= 1
    /\ \A i \in PendingUpgrades(r) : upgrading[r] = request_queue[r][i].txn_id
    /\ upgrading[r] # INVALID_TXN_ID
         => \E i \in PendingUpgrades(r) :
              request_queue[r][i].txn_id = upgrading[r]
    /\ Cardinality({i \in Ungranted(r) :
                      request_queue[r][i].txn_id = upgrading[r]}) <= 1

\* C6: at most one upgrade is pending on a queue and upgrading names its
\* requester exactly while it is pending (it is reset when the upgrade is
\* granted or its requester is seen aborted); a transaction that asks for an
\* allowed upgrade while another transaction's upgrade is pending is set to
\* ABORTED with UPGRADE_CONFLICT and the queue is left as it was.
C6_OneUpgrade ==
  [][/\ UpgradingPending
     /\ UpgradingPending'
     /\ \A t \in Txns, m \in LockMode, r \in Resources :
          (/\ upgrading[r] \notin {INVALID_TXN_ID, t}
           /\ \E h \in LockMode : Holds(t, r, h) /\ <<h, m>> \in AllowedUpgrades
           /\ LockPreCheck(t, m, r.on_table, r.oid) = "OK"
           /\ Lock(t, m, r))
            => /\ state'[t] = "ABORTED"
               /\ result' = "UPGRADE_CONFLICT"
               /\ request_queue' = request_queue
               /\ upgrading' = upgrading]_vars

\* a latecomer was aborted with UPGRADE_CONFLICT, still holding its lock,
\* while the first upgrade is pending
C6_Witness ==
  \E r \in Resources, t \in Txns :
    /\ result = "UPGRADE_CONFLICT"
    /\ state[t] = "ABORTED"
    /\ upgrading[r] \notin {INVALID_TXN_ID, t}
    /\ \E i \in Granted(r) : request_queue[r][i].txn_id = t
    /\ PendingUpgrades(r) # {}

\* the edges of a waits-for map, as a set of pairs
EdgeSet(wf) ==
  {e \in Txns \X Txns : \E i \in 1..Len(wf[e[1]]) : wf[e[1]][i] = e[2]}

\* v lies on a cycle of E all of whose nodes are in S
OnCycle(E, v, S) ==
  /\ v \in S
  /\ \E n \in 1..NumTxns : \E path \in [1..n -> S] :
       /\ path[1] = v
       /\ <<path[n], v>> \in E
       /\ \A i \in 1..(n - 1) : <<path[i], path[i + 1]>> \in E

\* E has a cycle inside S: some non-empty part of S in which every node has
\* a successor
Cyclic(E, S) ==
  \E C \in SUBSET S :
    /\ C # {}
    /\ \A u \in C : \E v \in C : <<u, v>> \in E

SeqSet(sq) == {sq[i] : i \in 1..Len(sq)}

\* T1 is blocked, alone on the queue it waits for, and not aborted: its wait
\* loop grants its request
AloneIsGranted ==
  \A r \in Resources :
    (/\ waiting[1] = r
     /\ state[1] # "ABORTED"
     /\ \A i \in 1..Len(request_queue[r]) : request_queue[r][i].txn_id = 1)
      => IsGranted(request_queue[r], upgrading[r], 1, state[1]).ret = "granted"

\* C3: on a tick, every victim lies on a cycle of the graph built from the
\* queues (less the earlier victims) whose members all have ids at most the
\* victim's; exactly the victims are set to ABORTED; a cyclic graph yields a
\* victim and the graph left behind is acyclic.  In the two-transaction
\* deadlock the victim is T2, T1 is never a victim, the edge list is empty
\* after the tick, and T1's request is granted once it is alone on its queue.
C3_VictimIsYoungestOnCycle ==
  [][/\ (/\ request_queue' = request_queue
         /\ result' = result
         /\ waiting' = waiting
         /\ RunCycleDetection) =>
          LET E0 == EdgeSet(BuildWaitsForGraph)
              V == victims'
          IN  /\ \A k \in 1..Len(V) :
                   OnCycle(E0, V[k],
                           {t \in Txns : t <= V[k]} \ SeqSet(SubSeq(V, 1, k - 1)))
              /\ Cyclic(E0, Txns) => Len(V) >= 1
              /\ ~Cyclic(E0, Txns \ SeqSet(V))
              /\ ~Cyclic(EdgeSet(waits_for'), Txns)
              /\ \A t \in Txns :
                   state'[t] = IF t \in SeqSet(V) THEN "ABORTED" ELSE state[t]
              /\ 1 \notin SeqSet(V)
              /\ E0 = {<<1, 2>>, <<2, 1>>}
                   => V = <<2>> /\ GetEdgeList(waits_for') = <<>>
     /\ AloneIsGranted
     /\ AloneIsGranted']_vars

\* the two-transaction deadlock resolved: the detector aborted T2 only, T2
\* gave up its lock, and T1 now holds X on both tables
C3_Witness ==
  /\ victims = <<2>>
  /\ state[2] = "ABORTED"
  /\ state[1] = "GROWING"
  /\ table_lock_set[1]["X"] = {1, 2}
  /\ table_lock_set[2]["X"] = {}
  /\ GetEdgeList(waits_for) = <<>>

\* the pairs (waiter, holder): the waiter has an ungranted request behind a
\* granted request of the holder on some queue
WaiterHolderPairs ==
  {e \in Txns \X Txns :
     \E r \in Resources : \E i \in Granted(r), j \in Ungranted(r) :
       /\ i < j
       /\ request_queue[r][j].txn_id = e[1]
       /\ request_queue[r][i].txn_id = e[2]}

\* C4: the graph a tick builds has the edge t1 -> t2 exactly when t1 waits
\* behind a granted request of t2, and GetEdgeList reports the edges in that
\* orientation (stated for the ticks that remove no edge).
C4_EdgesWaiterToHolder ==
  [][(/\ request_queue' = request_queue
       /\ result' = result
       /\ victims' = <<>>
       /\ RunCycleDetection)
       => SeqSet(GetEdgeList(waits_for')) = WaiterHolderPairs]_vars

\* the isolation-level admission rules
AdmissionForbids(iso, st, mode) ==
  \/ iso = "READ_UNCOMMITTED" /\ (mode \in {"S", "IS", "SIX"} \/ st = "SHRINKING")
  \/ iso = "READ_COMMITTED" /\ st = "SHRINKING" /\ mode \in {"X", "IX", "SIX"}
  \/ iso = "REPEATABLE_READ" /\ st = "SHRINKING"

AdmissionReasons == {"LOCK_ON_SHRINKING", "LOCK_SHARED_ON_READ_UNCOMMITTED"}

\* a call of LockTable / LockRow by t: the cheap part of the step
LockStep(t) ==
  /\ waiting[t] = NoRes
  /\ calls' = calls + 1
  /\ waits_for' = waits_for
  /\ victims' = victims

\* C7: a lock request the isolation-level rules forbid (READ_UNCOMMITTED: S,
\* IS, SIX, or anything in SHRINKING; READ_COMMITTED: X, IX, SIX in SHRINKING;
\* REPEATABLE_READ: anything in SHRINKING) sets the caller to ABORTED, raises
\* an abort and enqueues nothing, with an isolation-level reason whenever the
\* mode is legal for the resource; a request the rules admit is never
\* rejected with an isolation-level reason.
C7_IsolationAdmission ==
  [][\A t \in Txns, m \in LockMode, r \in Resources :
       /\ (/\ LockStep(t)
           /\ AdmissionForbids(isolation_level[t], state[t], m)
           /\ Lock(t, m, r))
            => /\ state'[t] = "ABORTED"
               /\ result' \in AbortReason
               /\ request_queue' = request_queue
               /\ table_lock_set' = table_lock_set
               /\ row_lock_set' = row_lock_set
               /\ (r.on_table \/ m \in {"S", "X"}) => result' \in AdmissionReasons
       /\ (/\ LockStep(t)
           /\ result' \in AdmissionReasons
           /\ ~AdmissionForbids(isolation_level[t], state[t], m))
            => ~Lock(t, m, r)]_vars

\* a request was rejected with LOCK_ON_SHRINKING, a READ_COMMITTED transaction
\* is ABORTED, and a READ_UNCOMMITTED one holds IX and is still GROWING
C7_Witness ==
  /\ result = "LOCK_ON_SHRINKING"
  /\ \E t \in Txns :
       /\ isolation_level[t] = "READ_COMMITTED"
       /\ state[t] = "ABORTED"
  /\ \E t \in Txns :
       /\ isolation_level[t] = "READ_UNCOMMITTED"
       /\ state[t] = "GROWING"
       /\ 1 \in table_lock_set[t]["IX"]

\* t holds the table lock a row lock of mode m on r needs
TableLockPresent(t, m, r) ==
  IF m = "X"
  THEN \E h \in {"X", "IX", "SIX"} : r.oid \in table_lock_set[t][h]
  ELSE \E h \in LockMode : r.oid \in table_lock_set[t][h]

\* C8: LockRow in mode S or X by a transaction that lacks the table lock the
\* mode needs (X, IX or SIX for X; any mode for S) sets it to ABORTED and
\* enqueues nothing, with TABLE_LOCK_NOT_PRESENT when the isolation-level
\* rules admit the request; TABLE_LOCK_NOT_PRESENT is raised in no other
\* case, and a row request that is enqueued or granted has the table lock.
C8_RowNeedsTableLock ==
  [][\A t \in Txns, m \in {"S", "X"}, r \in RowRes :
       (LockStep(t) /\ Lock(t, m, r))
         => /\ ~TableLockPresent(t, m, r)
                 => /\ state'[t] = "ABORTED"
                    /\ request_queue' = request_queue
                    /\ row_lock_set' = row_lock_set
                    /\ ~AdmissionForbids(isolation_level[t], state[t], m)
                         => result' = "TABLE_LOCK_NOT_PRESENT"
            /\ result' = "TABLE_LOCK_NOT_PRESENT" => ~TableLockPresent(t, m, r)
            /\ result' \in {"true", "wait", "false"} => TableLockPresent(t, m, r)]_vars

\* a transaction holding only IS or S on the table asked for X on a row and
\* was aborted for it
C8_Witness ==
  /\ result = "TABLE_LOCK_NOT_PRESENT"
  /\ \E t \in Txns :
       /\ state[t] = "ABORTED"
       /\ 1 \in table_lock_set[t]["IS"] \cup table_lock_set[t]["S"]
       /\ \A u \in Txns \ {t} : state[u] # "ABORTED"
  /\ \A r \in RowRes : request_queue[r] = <<>>

\* releasing mode m at isolation level iso ends the growing phase
ShrinkRule(iso, m) ==
  \/ iso = "REPEATABLE_READ" /\ m \in {"S", "X"}
  \/ iso \in {"READ_COMMITTED", "READ_UNCOMMITTED"} /\ m = "X"

\* C9: a successful UnlockTable / UnlockRow takes a GROWING caller to
\* SHRINKING exactly when it releases S or X under REPEATABLE_READ or X under
\* the two weaker levels, and changes no other state; a lock upgrade, which
\* releases the held lock on the way, changes no state; no step takes a
\* transaction out of SHRINKING, COMMITTED or ABORTED back to GROWING.
C9_ShrinkOnUnlock ==
  [][/\ \A t \in Txns, r \in Resources, m \in LockMode :
          (/\ LockStep(t)
           /\ result' = "true"
           /\ request_queue'[r] # request_queue[r]
           /\ Holds(t, r, m)
           /\ Unlock(t, r))
            => /\ state[t] = "GROWING"
                    => (state'[t] = "SHRINKING"
                          <=> ShrinkRule(isolation_level[t], m))
               /\ state[t] # "GROWING" => state'[t] = state[t]
               /\ \A u \in Txns \ {t} : state'[u] = state[u]
     /\ \A t \in Txns, r \in Resources, m \in LockMode :
          (/\ LockStep(t)
           /\ result' \in {"true", "wait", "false"}
           /\ request_queue'[r] # request_queue[r]
           /\ \E h \in LockMode \ {m} : Holds(t, r, h)
           /\ Lock(t, m, r))
            => state' = state
     /\ \A t \in Txns : state[t] # "GROWING" => state'[t] # "GROWING"]_vars

\* a READ_COMMITTED transaction released S and kept growing while a
\* REPEATABLE_READ one released S and is shrinking
C9_Witness ==
  /\ result = "true"
  /\ \E t, u \in Txns :
       /\ isolation_level[t] = "READ_COMMITTED"
       /\ state[t] = "GROWING"
       /\ isolation_level[u] = "REPEATABLE_READ"
       /\ state[u] = "SHRINKING"
  /\ \A r \in Resources : request_queue[r] = <<>>
  /\ calls = 4

\* C10: the lock sets agree with the queues: r is in t's lock set of mode m
\* exactly when r's queue holds a granted request of t in mode m, and t is in
\* at most one mode set per resource.
C10_LockSetsMatchQueues ==
  \A t \in Txns, r \in Resources :
    /\ \A m \in LockMode :
         Holds(t, r, m)
           <=> \E i \in Granted(r) :
                 /\ request_queue[r][i].txn_id = t
                 /\ request_queue[r][i].lock_mode = m
    /\ Cardinality({m \in LockMode : Holds(t, r, m)}) <= 1

\* a transaction holds IX on the table and X on a row, and another waits for
\* the row behind it
C10_Witness ==
  \E t, u \in Txns, r \in RowRes :
    /\ Holds(t, r, "X")
    /\ Holds(t, [on_table |-> TRUE, oid |-> 1, rid |-> 0], "IX")
    /\ waiting[u] = r
    /\ \E i \in Ungranted(r) : request_queue[r][i].txn_id = u
    /\ \A m \in LockMode : ~Holds(u, r, m)

\* ======================================================================
\* Buffer pool.  Three sources of BufferPoolManagerInstance are kept in the
\* repository: the one over LRUKReplacer ("lru_k"), and two over LRUReplacer,
\* one that takes latch_ in every call ("latched") and an older one that
\* takes no latch ("unlatched").  A call runs under latch_ from start to
\* return (the unlatched source is driven by one caller at a time), so each
\* call is one action.
\* ======================================================================
\* ---------------------------------------------------------------- bounds
\* page ids the disk holds and AllocatePage may hand out: 0 .. NumPageIds - 1
NumPageIds == 3
\* frames of the pool of SpecPool
PoolSize == 2
\* bytes a caller writes into a page: 1 .. MaxData (0 is the zeroed page)
MaxData == 2
\* budget of calls of SpecPool
MaxPoolCalls == 8

INVALID_PAGE_ID == -1
NO_AVAILABLE_FRAME_ID == -1
\* "no entry" of the page table
NO_FRAME == NO_AVAILABLE_FRAME_ID
\* "nothing recorded" of durable
NO_DATA == NO_FRAME
\* 0xffffffffffffffffULL, the distance of a frame with fewer than k_ accesses
INF_DIFF == 2147483647

\* page ids of the eviction scenario
ScenarioPageIds == {10, 20, 30, 40}
PageIds == 0..(NumPageIds - 1)
AllPageIds == PageIds \cup ScenarioPageIds
Data == 0..MaxData
Versions == {"lru_k", "latched", "unlatched"}

Frames == 0..(pool_size - 1)

\* Page::Page(): ResetMemory(), page_id_ = INVALID_PAGE_ID, pin_count_ = 0,
\* is_dirty_ = false
EmptyPage ==
  [page_id |-> INVALID_PAGE_ID, pin_count |-> 0, is_dirty |-> FALSE, data |-> 0]

\* the state the calls work on, as one record
PoolState ==
  [pages |-> pages, page_table |-> page_table, free_list |-> free_list,
   disk |-> disk, next_page_id |-> next_page_id,
   accesss_history |-> accesss_history, evictable |-> evictable,
   current_timestamp |-> current_timestamp, list_ |-> list_]

SetPoolState(s) ==
  /\ pages' = s.pages
  /\ page_table' = s.page_table
  /\ free_list' = s.free_list
  /\ disk' = s.disk
  /\ next_page_id' = s.next_page_id
  /\ accesss_history' = s.accesss_history
  /\ evictable' = s.evictable
  /\ current_timestamp' = s.current_timestamp
  /\ list_' = s.list_

\* ----------------------------------------------------------- LRUKReplacer
\* RecordAccess that never trims the history
RecordAccess_no_trim(s, frame_id) ==
  [s EXCEPT !.accesss_history[frame_id] = Append(@, s.current_timestamp),
            !.current_timestamp = @ + 1]

RecordAccess(s, frame_id) ==
  LET h == Append(s.accesss_history[frame_id], s.current_timestamp)
  IN  [s EXCEPT !.accesss_history[frame_id] = IF Len(h) > k_ THEN Tail(h) ELSE h,
                !.current_timestamp = @ + 1]

\* SetEvictable that marks the frame evictable whatever it is told
SetEvictable_always(s, frame_id, set_evictable) ==
  [s EXCEPT !.evictable[frame_id] = TRUE]

SetEvictable(s, frame_id, set_evictable) ==
  [s EXCEPT !.evictable[frame_id] = set_evictable]

\* Remove on a frame that is evictable or has no history
Remove(s, frame_id) ==
  IF s.accesss_history[frame_id] = <<>> THEN s
  ELSE [s EXCEPT !.accesss_history[frame_id] = <<>>]

Size(s) ==
  Cardinality({i \in 0..(replacer_size - 1) :
                 s.accesss_history[i] # <<>> /\ s.evictable[i]})

\* GetDiff that never answers with the infinite distance
GetDiff_no_infinity(s, frame_id) ==
  <<s.current_timestamp - Head(s.accesss_history[frame_id]),
    Head(s.accesss_history[frame_id])>>

\* the pair (diff, timestamp)
GetDiff(s, frame_id) ==
  LET recent_k_timestamp == Head(s.accesss_history[frame_id])
  IN  IF Len(s.accesss_history[frame_id]) < k_
      THEN <<INF_DIFF, recent_k_timestamp>>
      ELSE <<s.current_timestamp - recent_k_timestamp, recent_k_timestamp>>

RECURSIVE EvictLoop(_, _, _)
\* the for loop of Evict from index i on; a holds *frame_id,
\* current_max_diff, current_max_diff_timestamp and status
EvictLoop(s, i, a) ==
  IF i >= replacer_size THEN a
  ELSE IF s.accesss_history[i] = <<>> \/ ~s.evictable[i]
    THEN EvictLoop(s, i + 1, a)
  ELSE LET d == GetDiff(s, i)
       IN  IF \/ d[1] > a.current_max_diff
              \/ d[1] = a.current_max_diff /\ d[2] < a.current_max_diff_timestamp
           THEN EvictLoop(s, i + 1,
                          [frame_id |-> i, current_max_diff |-> d[1],
                           current_max_diff_timestamp |-> d[2], status |-> TRUE])
           ELSE EvictLoop(s, i + 1, a)

Evict(s) ==
  LET a == EvictLoop(s, 0, [frame_id |-> NO_AVAILABLE_FRAME_ID,
                            current_max_diff |-> 0,
                            current_max_diff_timestamp |-> 0,
                            status |-> FALSE])
  IN  [s |-> IF a.status THEN [s EXCEPT !.accesss_history[a.frame_id] = <<>>]
             ELSE s,
       frame_id |-> a.frame_id, status |-> a.status]

\* ------------------------------------------------------------ LRUReplacer
\* list_ holds the frames of table_, in the order of their Unpin
Victim(s) ==
  IF s.list_ = <<>> THEN [s |-> s, frame_id |-> NO_AVAILABLE_FRAME_ID, status |-> FALSE]
  ELSE [s |-> [s EXCEPT !.list_ = Tail(@)], frame_id |-> Head(s.list_),
        status |-> TRUE]

Pin(s, frame_id) ==
  [s EXCEPT !.list_ = SelectSeq(@, LAMBDA x : x # frame_id)]

Unpin(s, frame_id) ==
  IF \E i \in 1..Len(s.list_) : s.list_[i] = frame_id THEN s
  ELSE [s EXCEPT !.list_ = Append(@, frame_id)]

LRUReplacer_Size(s) == Len(s.list_)

\* ------------------------------------------ page table and disk manager
\* page_table_->Remove(page_id) / page_table_.erase(page_id)
PtRemove(pt, page_id) ==
  IF page_id \in DOMAIN pt THEN [pt EXCEPT ![page_id] = NO_FRAME] ELSE pt

\* disk_manager_->WritePage(page_id, data)
WritePage(d, page_id, data) ==
  IF page_id \in DOMAIN d THEN [d EXCEPT ![page_id] = data] ELSE d

\* what a call returns, with the state it leaves
Ret(s, ok, frame_id, page_id) ==
  [s |-> s, ok |-> ok, frame_id |-> frame_id, page_id |-> page_id]

\* -------------------- BufferPoolManagerInstance over LRUKReplacer ("lru_k")
\* the frame that Evict or Victim chose (its outcome is e), written back if
\* dirty and taken out of the page table
WriteBack(e) ==
  LET page == e.s.pages[e.frame_id]
      s1 == IF page.is_dirty
            THEN [e.s EXCEPT !.disk = WritePage(@, page.page_id, page.data),
                             !.pages[e.frame_id].is_dirty = FALSE]
            ELSE e.s
  IN  [s |-> [s1 EXCEPT !.page_table = PtRemove(@, page.page_id)],
       frame_id |-> e.frame_id]

AvailableFrame(s) ==
  IF s.free_list = <<>> /\ Size(s) = 0
  THEN [s |-> s, frame_id |-> NO_AVAILABLE_FRAME_ID]
  ELSE IF s.free_list = <<>>
  THEN WriteBack(Evict(s))
  ELSE [s |-> [s EXCEPT !.free_list = Tail(@)], frame_id |-> Head(s.free_list)]

\* NewPgImp once AvailableFrame has answered a
NewPgOn(s, a) ==
  LET f == a.frame_id
      page_id == a.s.next_page_id
      s1 == [a.s EXCEPT !.next_page_id = @ + 1,
                        !.pages[f] = [page_id |-> page_id, pin_count |-> 1,
                                      is_dirty |-> FALSE, data |-> 0],
                        !.disk = WritePage(@, page_id, 0),
                        !.page_table[page_id] = f]
  IN  IF f = NO_AVAILABLE_FRAME_ID THEN Ret(s, FALSE, f, INVALID_PAGE_ID)
      ELSE Ret(SetEvictable(RecordAccess(s1, f), f, FALSE), TRUE, f, page_id)

NewPgImp(s) == NewPgOn(s, AvailableFrame(s))

\* FetchPgImp once AvailableFrame has answered a
FetchPgOn(s, page_id, a) ==
  LET hit == s.page_table[page_id]
      f == a.frame_id
      s1 == [a.s EXCEPT !.pages[f] = [page_id |-> page_id, pin_count |-> 1,
                                      is_dirty |-> FALSE,
                                      data |-> a.s.disk[page_id]],
                        !.page_table[page_id] = f]
  IN  IF hit # NO_FRAME
      THEN Ret(SetEvictable(RecordAccess([s EXCEPT !.pages[hit].pin_count = @ + 1],
                                         hit), hit, FALSE),
               TRUE, hit, page_id)
      ELSE IF f = NO_AVAILABLE_FRAME_ID THEN Ret(s, FALSE, f, page_id)
      ELSE Ret(SetEvictable(RecordAccess(s1, f), f, FALSE), TRUE, f, page_id)

FetchPgImp(s, page_id) == FetchPgOn(s, page_id, AvailableFrame(s))

UnpinPgImp_always_evictable(s, page_id, is_dirty) ==
  LET f == s.page_table[page_id]
      s1 == [s EXCEPT !.pages[f].is_dirty = @ \/ is_dirty,
                      !.pages[f].pin_count = @ - 1]
  IN  IF f = NO_FRAME THEN Ret(s, FALSE, f, page_id)
      ELSE IF s.pages[f].pin_count <= 0 THEN Ret(s, FALSE, f, page_id)
      ELSE Ret(SetEvictable(s1, f, TRUE), TRUE, f, page_id)

UnpinPgImp(s, page_id, is_dirty) ==
  LET f == s.page_table[page_id]
      s1 == [s EXCEPT !.pages[f].is_dirty = @ \/ is_dirty,
                      !.pages[f].pin_count = @ - 1]
  IN  IF f = NO_FRAME THEN Ret(s, FALSE, f, page_id)
      ELSE IF s.pages[f].pin_count <= 0 THEN Ret(s, FALSE, f, page_id)
      ELSE Ret(IF s1.pages[f].pin_count = 0 THEN SetEvictable(s1, f, TRUE) ELSE s1,
               TRUE, f, page_id)

\* FlushPg that clears the dirty flag and writes nothing
FlushPg_no_write(s, f) == [s EXCEPT !.pages[f].is_dirty = FALSE]

FlushPg(s, f) ==
  [s EXCEPT !.disk = WritePage(@, s.pages[f].page_id, s.pages[f].data),
            !.pages[f].is_dirty = FALSE]

FlushPgImp(s, page_id) ==
  LET f == s.page_table[page_id]
  IN  IF f = NO_FRAME THEN Ret(s, FALSE, f, page_id)
      ELSE Ret(FlushPg(s, f), TRUE, f, page_id)

DeletePgImp(s, page_id) ==
  LET f == s.page_table[page_id]
      s1 == [s EXCEPT !.pages[f] = EmptyPage,
                      !.page_table = PtRemove(@, page_id)]
  IN  IF f = NO_FRAME THEN Ret(s, TRUE, f, page_id)
      ELSE IF s.pages[f].pin_count > 0 THEN Ret(s, FALSE, f, page_id)
      ELSE Ret([Remove(s1, f) EXCEPT !.free_list = Append(@, f)], TRUE, f, page_id)

\* ---------- BufferPoolManagerInstance over LRUReplacer, latched ("latched")
AvailableFrame_latched(s) ==
  IF s.free_list = <<>> /\ LRUReplacer_Size(s) = 0
  THEN [s |-> s, frame_id |-> NO_AVAILABLE_FRAME_ID]
  ELSE IF s.free_list = <<>>
  THEN WriteBack(Victim(s))
  ELSE [s |-> [s EXCEPT !.free_list = Tail(@)], frame_id |-> Head(s.free_list)]

\* AllocatePage of an instance that is not part of a parallel pool
\* (num_instances_ = 1) is folded into NewPgImp_latched
NewPgOn_latched(s, a) ==
  LET f == a.frame_id
      page_id == a.s.next_page_id
      s1 == [a.s EXCEPT !.next_page_id = @ + num_instances,
                        !.pages[f] = [page_id |-> page_id, pin_count |-> 1,
                                      is_dirty |-> FALSE, data |-> 0],
                        !.disk = WritePage(@, page_id, 0),
                        !.page_table[page_id] = f]
  IN  IF f = NO_AVAILABLE_FRAME_ID THEN Ret(s, FALSE, f, INVALID_PAGE_ID)
      ELSE Ret(Pin(s1, f), TRUE, f, page_id)

NewPgImp_latched(s) == NewPgOn_latched(s, AvailableFrame_latched(s))

FetchPgOn_latched(s, page_id, a) ==
  LET hit == s.page_table[page_id]
      f == a.frame_id
      s1 == [a.s EXCEPT !.pages[f] = [page_id |-> page_id, pin_count |-> 1,
                                      is_dirty |-> FALSE,
                                      data |-> a.s.disk[page_id]],
                        !.page_table[page_id] = f]
  IN  IF hit # NO_FRAME
      THEN Ret(Pin([s EXCEPT !.pages[hit].pin_count = @ + 1], hit),
               TRUE, hit, page_id)
      ELSE IF f = NO_AVAILABLE_FRAME_ID THEN Ret(s, FALSE, f, page_id)
      ELSE Ret(Pin(s1, f), TRUE, f, page_id)

FetchPgImp_latched(s, page_id) ==
  FetchPgOn_latched(s, page_id, AvailableFrame_latched(s))

UnpinPgImp_latched(s, page_id, is_dirty) ==
  LET f == s.page_table[page_id]
      was_pinned == s.pages[f].pin_count > 0
      s1 == [s EXCEPT !.pages[f].is_dirty = @ \/ is_dirty,
                      !.pages[f].pin_count = IF @ > 0 THEN @ - 1 ELSE @]
  IN  IF f = NO_FRAME THEN Ret(s, TRUE, f, page_id)
      ELSE Ret(IF s1.pages[f].pin_count = 0 THEN Unpin(s1, f) ELSE s1,
               was_pinned, f, page_id)

FlushPgImp_latched(s, page_id) ==
  LET f == s.page_table[page_id]
  IN  IF f = NO_FRAME THEN Ret(s, FALSE, f, page_id)
      ELSE IF s.pages[f].is_dirty
      THEN Ret([s EXCEPT !.disk = WritePage(@, page_id, s.pages[f].data),
                         !.pages[f].is_dirty = FALSE],
               TRUE, f, page_id)
      ELSE Ret(s, TRUE, f, page_id)

DeletePgImp_latched(s, page_id) ==
  LET f == s.page_table[page_id]
  IN  IF f = NO_FRAME THEN Ret(s, TRUE, f, page_id)
      ELSE IF s.pages[f].pin_count > 0 THEN Ret(s, FALSE, f, page_id)
      ELSE Ret([s EXCEPT !.pages[f] = EmptyPage,
                         !.page_table = PtRemove(@, page_id),
                         !.free_list = Append(@, f)],
               TRUE, f, page_id)

\* ------- BufferPoolManagerInstance over LRUReplacer, no latch ("unlatched")
\* page_table_[page_id] on an absent key inserts the key with frame 0
PtIndex(pt, page_id) ==
  IF pt[page_id] = NO_FRAME THEN [pt EXCEPT ![page_id] = 0] ELSE pt

\* the frame Victim chose: written back if dirty (the dirty flag stays),
\* its memory reset, and taken out of the page table
WriteBack_unlatched(e) ==
  LET page == e.s.pages[e.frame_id]
      s1 == IF page.is_dirty
            THEN [e.s EXCEPT !.disk = WritePage(@, page.page_id, page.data)]
            ELSE e.s
  IN  [s |-> [s1 EXCEPT !.pages[e.frame_id].data = 0,
                        !.page_table = PtRemove(@, page.page_id)],
       frame_id |-> e.frame_id]

AvailableFrame_unlatched(s) ==
  IF s.free_list = <<>>
  THEN IF LRUReplacer_Size(s) = 0
       THEN [s |-> s, frame_id |-> NO_AVAILABLE_FRAME_ID]
       ELSE WriteBack_unlatched(Victim(s))
  ELSE [s |-> [s EXCEPT !.free_list = Tail(@)], frame_id |-> Head(s.free_list)]

NewPgOn_unlatched(s, a) ==
  LET page_id == s.next_page_id
      f == a.frame_id
      s1 == [a.s EXCEPT !.pages[f].pin_count = @ + 1,
                        !.pages[f].page_id = page_id]
  IN  IF s.free_list = <<>> /\ LRUReplacer_Size(s) = 0
      THEN Ret(s, FALSE, NO_AVAILABLE_FRAME_ID, INVALID_PAGE_ID)
      ELSE Ret([Pin(s1, f) EXCEPT !.page_table[page_id] = f], TRUE, f, page_id)

\* AllocatePage comes before the search for a frame
NewPgImp_unlatched(s) ==
  NewPgOn_unlatched(s, AvailableFrame_unlatched(
                         [s EXCEPT !.next_page_id = @ + num_instances]))

FetchPgOn_unlatched(s, page_id, a) ==
  LET hit == s.page_table[page_id]
      f == a.frame_id
  IN  IF hit # NO_FRAME
      THEN Ret(Pin([s EXCEPT !.pages[hit].pin_count = @ + 1], hit),
               TRUE, hit, page_id)
      ELSE IF f = NO_AVAILABLE_FRAME_ID THEN Ret(s, FALSE, f, page_id)
      ELSE Ret([a.s EXCEPT !.pages[f].page_id = page_id,
                           !.pages[f].data = a.s.disk[page_id],
                           !.page_table[page_id] = f],
               TRUE, f, page_id)

FetchPgImp_unlatched(s, page_id) ==
  FetchPgOn_unlatched(s, page_id, AvailableFrame_unlatched(s))

UnpinPgImp_unlatched(s, page_id, is_dirty) ==
  LET pt == PtIndex(s.page_table, page_id)
      f == pt[page_id]
      s1 == [s EXCEPT !.page_table = pt,
                      !.pages[f].is_dirty = is_dirty,
                      !.pages[f].pin_count = IF @ > 0 THEN @ - 1 ELSE @]
      s2 == IF s1.pages[f].pin_count = 0 THEN Unpin(s1, f) ELSE s1
  IN  Ret(s2, s2.pages[f].pin_count = 0, f, page_id)

FlushPgImp_unlatched(s, page_id) ==
  LET f == s.page_table[page_id]
  IN  IF f = NO_FRAME THEN Ret(s, FALSE, f, page_id)
      ELSE Ret([s EXCEPT !.disk = WritePage(@, page_id, s.pages[f].data)],
               TRUE, f, page_id)

DeletePgImp_unlatched(s, page_id) ==
  LET f == s.page_table[page_id]
  IN  IF f = NO_FRAME THEN Ret(s, TRUE, f, page_id)
      ELSE IF s.pages[f].pin_count > 0 THEN Ret(s, FALSE, f, page_id)
      ELSE Ret([s EXCEPT !.pages[f].data = 0,
                         !.page_table = PtRemove(@, page_id)],
               TRUE, f, page_id)

\* ------------------------------------------------------ buffer pool calls
\* replacer_k of the pools of SpecPool and SpecEvict
ReplacerK == 2

\* BufferPoolManagerInstance(pool_size, disk_manager, replacer_k) of one of
\* the sources vs, on a disk of zeroed pages
PoolInit(vs, n, k) ==
  /\ version \in vs
  /\ pool_size = n
  /\ num_instances = 1
  /\ pages = [f \in 0..(n - 1) |-> EmptyPage]
  /\ page_table = [p \in AllPageIds |-> NO_FRAME]
  /\ free_list = [i \in 1..n |-> i - 1]
  /\ disk = [p \in AllPageIds |-> 0]
  /\ next_page_id = 0
  /\ durable = [p \in AllPageIds |-> NO_DATA]
  /\ round_trip = [p \in AllPageIds |-> "none"]
  /\ pool_result = [op |-> "none", page_id |-> INVALID_PAGE_ID,
                    is_dirty |-> FALSE, ok |-> FALSE, frame_id |-> NO_FRAME]
  /\ pool_calls = 0
  /\ k_ = k
  /\ replacer_size = n
  /\ accesss_history = [f \in 0..(n - 1) |-> <<>>]
  /\ evictable = [f \in 0..(n - 1) |-> FALSE]
  /\ current_timestamp = 0
  /\ access_log = [f \in 0..(n - 1) |-> <<>>]
  /\ list_ = <<>>
  /\ LockUnused
  /\ ParallelUnused
  /\ TableUnused
  /\ TreeUnused

\* the frame of a call's state and result
Call(op, r, is_dirty) ==
  /\ SetPoolState(r.s)
  /\ pool_result' = [op |-> op, page_id |-> r.page_id, is_dirty |-> is_dirty,
                     ok |-> r.ok, frame_id |-> r.frame_id]
  /\ pool_calls' = pool_calls + 1
  /\ UNCHANGED <<version, pool_size, num_instances, k_, replacer_size,
                 access_log>>
  /\ UNCHANGED outside_pool

NewPage ==
  LET r == CASE version = "lru_k" -> NewPgImp(PoolState)
             [] version = "latched" -> NewPgImp_latched(PoolState)
             [] OTHER -> NewPgImp_unlatched(PoolState)
  IN  /\ next_page_id \in PageIds
      /\ Call("NewPage", r, FALSE)
      /\ durable' = IF r.ok THEN [durable EXCEPT ![r.page_id] = NO_DATA]
                    ELSE durable
      /\ round_trip' = IF r.ok THEN [round_trip EXCEPT ![r.page_id] = "new"]
                       ELSE round_trip

FetchPage(page_id) ==
  LET r == CASE version = "lru_k" -> FetchPgImp(PoolState, page_id)
             [] version = "latched" -> FetchPgImp_latched(PoolState, page_id)
             [] OTHER -> FetchPgImp_unlatched(PoolState, page_id)
  IN  /\ Call("FetchPage", r, FALSE)
      /\ UNCHANGED <<durable, round_trip>>

\* page_id is resident with a positive pin count
Pinned(page_id) ==
  /\ page_table[page_id] # NO_FRAME
  /\ pages[page_table[page_id]].pin_count > 0

UnpinPage(page_id, is_dirty) ==
  LET r == CASE version = "lru_k" -> UnpinPgImp(PoolState, page_id, is_dirty)
             [] version = "latched" ->
                  UnpinPgImp_latched(PoolState, page_id, is_dirty)
             [] OTHER -> UnpinPgImp_unlatched(PoolState, page_id, is_dirty)
      declared == is_dirty /\ Pinned(page_id)
  IN  /\ Call("UnpinPage", r, is_dirty)
      /\ durable' = IF declared
                    THEN [durable EXCEPT ![page_id] =
                            pages[page_table[page_id]].data]
                    ELSE durable
      /\ round_trip' = IF declared /\ round_trip[page_id] = "written"
                       THEN [round_trip EXCEPT ![page_id] = "unpinned"]
                       ELSE round_trip

FlushPage(page_id) ==
  LET r == CASE version = "lru_k" -> FlushPgImp(PoolState, page_id)
             [] version = "latched" -> FlushPgImp_latched(PoolState, page_id)
             [] OTHER -> FlushPgImp_unlatched(PoolState, page_id)
  IN  /\ Call("FlushPage", r, FALSE)
      /\ round_trip' = IF r.ok /\ round_trip[page_id] = "unpinned"
                       THEN [round_trip EXCEPT ![page_id] = "flushed"]
                       ELSE round_trip
      /\ UNCHANGED durable

DeletePage(page_id) ==
  LET r == CASE version = "lru_k" -> DeletePgImp(PoolState, page_id)
             [] version = "latched" -> DeletePgImp_latched(PoolState, page_id)
             [] OTHER -> DeletePgImp_unlatched(PoolState, page_id)
      deleted == r.ok /\ page_table[page_id] # NO_FRAME
  IN  /\ Call("DeletePage", r, FALSE)
      /\ durable' = IF deleted THEN [durable EXCEPT ![page_id] = NO_DATA]
                    ELSE durable
      /\ round_trip' = IF deleted THEN [round_trip EXCEPT ![page_id] = "none"]
                       ELSE round_trip

\* a caller that holds a pin on page_id writes bytes into the page
WriteData(page_id, data) ==
  /\ Pinned(page_id)
  /\ pages' = [pages EXCEPT ![page_table[page_id]].data = data]
  /\ durable' = [durable EXCEPT ![page_id] = NO_DATA]
  /\ round_trip' = [round_trip EXCEPT ![page_id] =
                      IF @ = "none" THEN @ ELSE "written"]
  /\ pool_result' = [op |-> "WriteData", page_id |-> page_id,
                     is_dirty |-> FALSE, ok |-> TRUE,
                     frame_id |-> page_table[page_id]]
  /\ pool_calls' = pool_calls + 1
  /\ UNCHANGED <<version, pool_size, num_instances, page_table, free_list,
                 disk, next_page_id, replacer_vars>>
  /\ UNCHANGED outside_pool

\* AllocatePage has handed out page_id: the callers of FetchPage name pages
\* that exist
Allocated(page_id) == page_id < next_page_id

\* SpecPool: a pool of PoolSize frames of any of the three sources, driven
\* through its public calls on the page ids of PageIds; pages are fetched
\* once allocated
InitPool == PoolInit(Versions, PoolSize, ReplacerK)

NextPool ==
  \/ pool_calls < MaxPoolCalls /\ NewPage
  \/ /\ pool_calls < MaxPoolCalls
     /\ \E p \in PageIds : Allocated(p) /\ FetchPage(p)
  \/ pool_calls < MaxPoolCalls /\ \E p \in PageIds, d \in BOOLEAN : UnpinPage(p, d)
  \/ pool_calls < MaxPoolCalls /\ \E p \in PageIds : FlushPage(p)
  \/ pool_calls < MaxPoolCalls /\ \E p \in PageIds : DeletePage(p)
  \/ /\ pool_calls < MaxPoolCalls
     /\ \E p \in PageIds, v \in 1..MaxData : WriteData(p, v)

SpecPool == InitPool /\ [][NextPool]_vars

\* ------------------------------------------------- buffer pool properties
\* the replacer may hand out frame f: its evictable_ flag is set (LRUKReplacer)
\* or it is in list_ (LRUReplacer)
Evictable(f) ==
  IF version = "lru_k" THEN evictable[f]
  ELSE \E i \in 1..Len(list_) : list_[i] = f

\* C11: in every reachable state of the pool, whichever source runs, no
\* frame has a negative pin count and every frame the replacer considers
\* evictable has pin count 0.
C11_PinCounts ==
  \A f \in Frames :
    /\ pages[f].pin_count >= 0
    /\ Evictable(f) => pages[f].pin_count = 0

\* one frame is pinned twice and not evictable, another was unpinned to 0
\* and is evictable
C11_Witness ==
  \E f, g \in Frames :
    /\ pages[f].pin_count = 2
    /\ ~Evictable(f)
    /\ pages[g].pin_count = 0
    /\ pages[g].page_id # INVALID_PAGE_ID
    /\ Evictable(g)

\* everything a call can change, but for its result and the ghost variables
PoolData ==
  <<pages, page_table, free_list, disk, next_page_id, accesss_history,
    evictable, current_timestamp, list_>>

\* the contract of UnpinPage on the step just taken, which unpinned page p
UnpinContract(p) ==
  IF ~Pinned(p)
  THEN /\ ~pool_result'.ok
       /\ PoolData' = PoolData
  ELSE \E f \in Frames :
         /\ f = page_table[p]
         /\ pool_result'.ok
         /\ page_table' = page_table
         /\ pages'[f].pin_count = pages[f].pin_count - 1
         /\ \A g \in Frames \ {f} : pages'[g] = pages[g]
         /\ Evictable(f)' <=> pages'[f].pin_count = 0

\* C12: UnpinPage(page id, dirty) returns false and changes nothing when the
\* page is not resident or its pin count is 0; otherwise it returns true,
\* lowers the pin count by one and leaves the frame evictable exactly when
\* the count reached 0.
C12_UnpinContract ==
  [][\A p \in AllPageIds :
       (pool_result'.op = "UnpinPage" /\ pool_result'.page_id = p)
         => UnpinContract(p)]_vars

\* the same contract, of the source over LRUKReplacer alone
C12_UnpinContract_lru_k ==
  [][\A p \in AllPageIds :
       (version = "lru_k" /\ pool_result'.op = "UnpinPage"
                          /\ pool_result'.page_id = p)
         => UnpinContract(p)]_vars

\* the bytes a caller gets for page p: those of its frame when p is
\* resident, else those ReadPage finds on disk
Content(p) ==
  IF page_table[p] # NO_FRAME THEN pages[page_table[p]].data ELSE disk[p]

\* the page table and the frames agree: a page id maps to a frame that
\* holds that page, and to no frame another page id maps to
PageTableExact ==
  \A p \in AllPageIds :
    page_table[p] # NO_FRAME =>
      /\ pages[page_table[p]].page_id = p
      /\ \A q \in AllPageIds \ {p} : page_table[q] # page_table[p]

\* C13: no modification is lost across eviction: once a page was unpinned
\* with the dirty flag, the bytes it had then are the bytes of the page,
\* in its frame while it is resident and on disk once the frame has been
\* given to another page, and the page table never maps an evicted page id
\* to the reused frame.
C13_NoLostModification ==
  /\ PageTableExact
  /\ \A p \in AllPageIds : durable[p] # NO_DATA => Content(p) = durable[p]

\* the same, of the two sources whose UnpinPgImp ORs the dirty flag
C13_NoLostModification_or ==
  version # "unlatched" => C13_NoLostModification

\* the step is a FetchPage(p) that returned a page
Fetched(p) ==
  /\ pool_result'.op = "FetchPage"
  /\ pool_result'.page_id = p
  /\ pool_result'.ok

\* the two sources whose FlushPgImp and NewPgImp the round trip is stated of:
\* the one over LRUKReplacer and the latched one over LRUReplacer
RoundTripSource == version \in {"lru_k", "latched"}

\* C14: a page made by NewPage, written, unpinned with the dirty flag and
\* flushed is returned by every later FetchPage with the bytes written,
\* whatever pages were brought in or evicted in between.
C14_RoundTrip ==
  [][\A p \in PageIds :
       (RoundTripSource /\ round_trip[p] = "flushed" /\ Fetched(p))
         => pages'[pool_result'.frame_id].data = durable[p]]_vars

\* the first page made by NewPage went through the round trip, lost its
\* frame 0 to one of the pages made after it and has just been fetched into
\* another frame with the bytes written
C14_Witness ==
  \E p \in PageIds :
    /\ RoundTripSource
    /\ round_trip[p] = "flushed"
    /\ pool_result.op = "FetchPage"
    /\ pool_result.page_id = p
    /\ pool_result.ok
    /\ pages[pool_result.frame_id].data = durable[p]
    /\ durable[p] # 0
    /\ next_page_id > PoolSize
    /\ p = 0 /\ pool_result.frame_id # 0
    /\ \E q \in PageIds \ {p} : page_table[q] # NO_FRAME
    /\ \E q \in PageIds \ {p} : Allocated(q) /\ page_table[q] = NO_FRAME

\* ------------------------------------------------------ eviction scenario
MaxEvictCalls == 6

\* one frame less than the scenario has pages
ScenarioPoolSize == Cardinality(ScenarioPageIds) - 1

\* SpecEvict: the pool over LRUKReplacer with room for all but one of the
\* pages of ScenarioPageIds, which callers fetch and unpin while NewPage
\* makes further pages
InitEvict == PoolInit({"lru_k"}, ScenarioPoolSize, ReplacerK)

NextEvict ==
  \/ pool_calls < MaxEvictCalls /\ NewPage
  \/ pool_calls < MaxEvictCalls /\ \E p \in ScenarioPageIds : FetchPage(p)
  \/ pool_calls < MaxEvictCalls /\ \E p \in ScenarioPageIds : UnpinPage(p, FALSE)

SpecEvict == InitEvict /\ [][NextEvict]_vars

\* no frame is free and every frame holds a pinned page
AllPinned ==
  /\ free_list = <<>>
  /\ \A f \in Frames : pages[f].pin_count > 0

\* the step leaves every pinned page in its frame
PinnedStay ==
  \A f \in Frames :
    pages[f].pin_count > 0 =>
      /\ pages'[f].page_id = pages[f].page_id
      /\ page_table'[pages[f].page_id] = f

\* no frame is free, p is the one resident page that is not pinned, and the
\* step is a FetchPage(q) of a page that is not resident: it succeeds and
\* evicts exactly p
EvictsOnlyUnpinned(p, q) ==
  ( /\ free_list = <<>>
    /\ page_table[p] # NO_FRAME
    /\ page_table[q] = NO_FRAME
    /\ \A f \in Frames : pages[f].pin_count = 0 <=> f = page_table[p]
    /\ pool_result'.op = "FetchPage"
    /\ pool_result'.page_id = q )
  => /\ pool_result'.ok
     /\ pool_result'.frame_id = page_table[p]
     /\ page_table'[q] = page_table[p]
     /\ page_table'[p] = NO_FRAME
     /\ \A r \in AllPageIds \ {p, q} : page_table'[r] = page_table[r]

\* with every frame pinned, NewPage and a FetchPage of a page that is not
\* resident return none and change nothing
NoneWhenAllPinned ==
  \A q \in AllPageIds :
    ( /\ AllPinned
      /\ \/ pool_result'.op = "NewPage"
         \/ /\ pool_result'.op = "FetchPage"
            /\ pool_result'.page_id = q
            /\ page_table[q] = NO_FRAME )
    => ~pool_result'.ok /\ PoolData' = PoolData

\* C15: a pinned page is never evicted: every step leaves the pinned pages in
\* their frames; with no free frame and a single unpinned page p, as after
\* Fetch(10), Fetch(20), Fetch(30), Unpin(10, false) in a pool of 3 frames,
\* the Fetch of a page that is not resident succeeds and evicts exactly p;
\* with every frame pinned, as for the Fetch(10) that follows Fetch(40),
\* NewPage and FetchPage return none.
C15_PinnedNeverEvicted ==
  [][/\ PinnedStay
     /\ \A p, q \in AllPageIds : EvictsOnlyUnpinned(p, q)
     /\ NoneWhenAllPinned]_vars

\* the scenario has run: 40 sits in the frame that held 10, 20 and 30 are
\* where they were, all three pinned, and the Fetch(10) that followed
\* returned none
C15_Witness ==
  /\ pool_size = ScenarioPoolSize
  /\ page_table[40] = 0 /\ page_table[20] = 1 /\ page_table[30] = 2
  /\ page_table[10] = NO_FRAME
  /\ AllPinned
  /\ pool_result.op = "FetchPage"
  /\ pool_result.page_id = 10
  /\ ~pool_result.ok

\* the replacer holds frame f as a candidate for eviction: it counts in
\* Size() of LRUKReplacer, or it is in list_ of LRUReplacer
InReplacer(f) ==
  IF version = "lru_k" THEN accesss_history[f] # <<>> /\ evictable[f]
  ELSE \E i \in 1..Len(list_) : list_[i] = f

\* f is in the free list
Free(f) == \E i \in 1..Len(free_list) : free_list[i] = f

\* the contract of DeletePage on the step just taken, which deleted page p
DeleteContract(p) ==
  IF page_table[p] = NO_FRAME
  THEN pool_result'.ok /\ PoolData' = PoolData
  ELSE \E f \in Frames :
         /\ f = page_table[p]
         /\ IF pages[f].pin_count > 0
            THEN ~pool_result'.ok /\ PoolData' = PoolData
            ELSE /\ pool_result'.ok
                 /\ page_table'[p] = NO_FRAME
                 /\ ~InReplacer(f)'
                 /\ pages'[f] = EmptyPage
                 /\ ~Free(f) /\ Free(f)'

\* C16: DeletePage(p) returns true and changes nothing when p is not
\* resident, so a second DeletePage(p) is true as well; it returns false and
\* changes nothing when p is pinned; otherwise it removes p from the page
\* table, removes the frame from the replacer, resets the frame and returns
\* it to the free list.
C16_DeleteContract ==
  [][\A p \in AllPageIds :
       (pool_result'.op = "DeletePage" /\ pool_result'.page_id = p)
         => DeleteContract(p)]_vars

\* the same, of the source over LRUKReplacer alone
C16_DeleteContract_lru_k ==
  [][\A p \in AllPageIds :
       (version = "lru_k" /\ pool_result'.op = "DeletePage"
                          /\ pool_result'.page_id = p)
         => DeleteContract(p)]_vars

\* ------------------------------------------- ParallelBufferPoolManager
NumInstances == 2
InstancePoolSize == 1
NumParPageIds == 4
MaxParCalls == 5

Instances == 0..(num_instances - 1)
ParPageIds == 0..(NumParPageIds - 1)

\* the entry page_instance_map_ has no value for
NO_INSTANCE == NO_FRAME

\* new BufferPoolManagerInstance(pool_size, num_instances, i, ...): the
\* state of instance i; the disk manager is shared and kept in disk
Instance(i) ==
  [pages |-> [f \in 0..(pool_size - 1) |-> EmptyPage],
   page_table |-> [p \in ParPageIds |-> NO_FRAME],
   free_list |-> [f \in 1..pool_size |-> f - 1],
   disk |-> <<>>,
   next_page_id |-> i,
   accesss_history |-> <<>>, evictable |-> <<>>, current_timestamp |-> 0,
   list_ |-> <<>>]

\* the state of instance i with the shared disk
WithDisk(b, d, i) == [b[i] EXCEPT !.disk = d]

\* what a call of the parallel pool returns, with the state it leaves
ParRet(b, d, m, c, r, i) ==
  [bpms |-> [b EXCEPT ![i] = [r.s EXCEPT !.disk = <<>>]], disk |-> r.s.disk,
   page_instance_map |-> m, cur_index |-> c, ok |-> r.ok,
   page_id |-> r.page_id, instance |-> i]

\* page_instance_map_[page_id], which inserts the value 0 for a page id the
\* map does not hold
MapIndex(m, page_id) ==
  IF m[page_id] = NO_INSTANCE THEN [m EXCEPT ![page_id] = 0] ELSE m

\* GetBufferPoolManager: the index of the instance it returns
GetBufferPoolManager(m, page_id) == MapIndex(m, page_id)[page_id]

Par_FetchPgImp(b, d, m, c, page_id) ==
  LET i == GetBufferPoolManager(m, page_id)
  IN  ParRet(b, d, MapIndex(m, page_id), c,
             FetchPgImp_latched(WithDisk(b, d, i), page_id), i)

Par_UnpinPgImp(b, d, m, c, page_id, is_dirty) ==
  LET i == GetBufferPoolManager(m, page_id)
  IN  ParRet(b, d, MapIndex(m, page_id), c,
             UnpinPgImp_latched(WithDisk(b, d, i), page_id, is_dirty), i)

Par_FlushPgImp(b, d, m, c, page_id) ==
  LET i == GetBufferPoolManager(m, page_id)
  IN  ParRet(b, d, MapIndex(m, page_id), c,
             FlushPgImp_latched(WithDisk(b, d, i), page_id), i)

\* the instance deletes; the parallel pool returns false
Par_DeletePgImp(b, d, m, c, page_id) ==
  LET i == GetBufferPoolManager(m, page_id)
      r == DeletePgImp_latched(WithDisk(b, d, i), page_id)
  IN  ParRet(b, d, MapIndex(m, page_id), c, [r EXCEPT !.ok = FALSE], i)

RECURSIVE Par_NewPgLoop(_, _, _, _, _)
\* the do-while of NewPgImp with cur_index = c, started at old_index
Par_NewPgLoop(b, d, m, c, old_index) ==
  LET r == NewPgImp_latched(WithDisk(b, d, c))
      next == (c + 1) % num_instances
  IN  IF r.ok
      THEN ParRet(b, d, [m EXCEPT ![r.page_id] = c], next, r, c)
      ELSE IF next # old_index THEN Par_NewPgLoop(b, d, m, next, old_index)
      ELSE [bpms |-> b, disk |-> d, page_instance_map |-> m,
            cur_index |-> next, ok |-> FALSE, page_id |-> INVALID_PAGE_ID,
            instance |-> NO_INSTANCE]

Par_NewPgImp(b, d, m, c) == Par_NewPgLoop(b, d, m, c, c)

\* ParallelBufferPoolManager(num_instances, pool_size, ...)
ParInit(n, size) ==
  /\ version = "latched"
  /\ pool_size = size
  /\ num_instances = n
  /\ bpms = [i \in 0..(n - 1) |-> Instance(i)]
  /\ page_instance_map = [p \in ParPageIds |-> NO_INSTANCE]
  /\ cur_index = 0
  /\ routed = [op |-> "none", page_id |-> INVALID_PAGE_ID,
               instance |-> NO_INSTANCE, ok |-> FALSE]
  /\ disk = [p \in ParPageIds |-> 0]
  /\ pool_calls = 0
  /\ pages = <<>> /\ page_table = <<>> /\ free_list = <<>>
  /\ next_page_id = 0
  /\ durable = <<>> /\ round_trip = <<>> /\ pool_result = <<>>
  /\ k_ = 0 /\ replacer_size = size
  /\ accesss_history = <<>> /\ evictable = <<>> /\ current_timestamp = 0
  /\ access_log = <<>> /\ list_ = <<>>
  /\ LockUnused
  /\ TableUnused
  /\ TreeUnused

\* the frame of a call on the parallel pool
ParCall(op, r) ==
  /\ bpms' = r.bpms
  /\ disk' = r.disk
  /\ page_instance_map' = r.page_instance_map
  /\ cur_index' = r.cur_index
  /\ routed' = [op |-> op, page_id |-> r.page_id, instance |-> r.instance,
                ok |-> r.ok]
  /\ pool_calls' = pool_calls + 1
  /\ UNCHANGED <<version, pool_size, num_instances, pages, page_table,
                 free_list, next_page_id, durable, round_trip, pool_result,
                 replacer_vars>>
  /\ UNCHANGED <<lock_vars, table_vars, latch_vars, tree_vars>>

Par_NewPage ==
  /\ \A i \in Instances : bpms[i].next_page_id \in ParPageIds
  /\ ParCall("NewPage", Par_NewPgImp(bpms, disk, page_instance_map, cur_index))

Par_FetchPage(page_id) ==
  ParCall("FetchPage",
          Par_FetchPgImp(bpms, disk, page_instance_map, cur_index, page_id))

Par_UnpinPage(page_id, is_dirty) ==
  ParCall("UnpinPage",
          Par_UnpinPgImp(bpms, disk, page_instance_map, cur_index, page_id,
                         is_dirty))

Par_FlushPage(page_id) ==
  ParCall("FlushPage",
          Par_FlushPgImp(bpms, disk, page_instance_map, cur_index, page_id))

Par_DeletePage(page_id) ==
  ParCall("DeletePage",
          Par_DeletePgImp(bpms, disk, page_instance_map, cur_index, page_id))

\* SpecParallel: a parallel pool of NumInstances instances of
\* InstancePoolSize frames each, driven through its public calls
InitParallel == ParInit(NumInstances, InstancePoolSize)

NextParallel ==
  \/ pool_calls < MaxParCalls /\ Par_NewPage
  \/ pool_calls < MaxParCalls /\ \E p \in ParPageIds : Par_FetchPage(p)
  \/ pool_calls < MaxParCalls /\ \E p \in ParPageIds : Par_UnpinPage(p, FALSE)
  \/ pool_calls < MaxParCalls /\ \E p \in ParPageIds : Par_FlushPage(p)
  \/ pool_calls < MaxParCalls /\ \E p \in ParPageIds : Par_DeletePage(p)

SpecParallel == InitParallel /\ [][NextParallel]_vars

\* the last call was served by the instance page_id mod N
RoutedByModulus == routed.instance = routed.page_id % num_instances

\* C17: in the parallel pool of N instances every page id handed out by
\* instance i has page_id mod N = i, and every FetchPage, UnpinPage, FlushPage
\* and DeletePage of a page id p, handed out by NewPage or not, is served by
\* instance p mod N.
C17_RoutedByModulus ==
  (routed.op # "none" /\ (routed.op = "NewPage" => routed.ok))
    => RoutedByModulus

\* what holds of the code: NewPage hands out ids of the instance's residue
\* class, and a page id that NewPage handed out is served by the instance
\* that handed it out
C17_AllocatedByModulus ==
  /\ (routed.op = "NewPage" /\ routed.ok) => RoutedByModulus
  /\ \A i \in Instances : bpms[i].next_page_id % num_instances = i
  /\ \A p \in ParPageIds :
       (\E i \in Instances : p < bpms[i].next_page_id /\ p % num_instances = i)
         => page_instance_map[p] = p % num_instances

\* ------------------------------------------------- LRUKReplacer on its own
NumReplacerFrames == 3
MaxReplacerCalls == 7

\* LRUKReplacer(num_frames, k), with no buffer pool around it
ReplacerInit(num_frames, ks) ==
  /\ k_ \in ks
  /\ replacer_size = num_frames
  /\ accesss_history = [f \in 0..(num_frames - 1) |-> <<>>]
  /\ evictable = [f \in 0..(num_frames - 1) |-> FALSE]
  /\ current_timestamp = 0
  /\ access_log = [f \in 0..(num_frames - 1) |-> <<>>]
  /\ list_ = <<>>
  /\ version = "lru_k"
  /\ pool_size = 0 /\ num_instances = 0
  /\ pages = <<>> /\ page_table = <<>> /\ free_list = <<>> /\ disk = <<>>
  /\ next_page_id = 0
  /\ durable = <<>> /\ round_trip = <<>>
  /\ pool_result = [op |-> "none", frame_id |-> NO_FRAME, ok |-> FALSE]
  /\ pool_calls = 0
  /\ LockUnused
  /\ ParallelUnused
  /\ TableUnused
  /\ TreeUnused

ReplacerFrames == 0..(replacer_size - 1)

\* the frame of a call on the replacer
ReplacerCall(op, s, frame_id, ok) ==
  /\ pool_result.op # "abort"
  /\ accesss_history' = s.accesss_history
  /\ evictable' = s.evictable
  /\ current_timestamp' = s.current_timestamp
  /\ pool_result' = [op |-> op, frame_id |-> frame_id, ok |-> ok]
  /\ pool_calls' = pool_calls + 1
  /\ UNCHANGED <<version, pool_size, num_instances, pages, page_table,
                 free_list, disk, next_page_id, durable, round_trip, k_,
                 replacer_size, list_>>
  /\ UNCHANGED <<lock_vars, parallel_vars, table_vars, latch_vars, tree_vars>>

R_RecordAccess(frame_id) ==
  /\ ReplacerCall("RecordAccess", RecordAccess(PoolState, frame_id), frame_id,
                  TRUE)
  /\ access_log' = [access_log EXCEPT ![frame_id] = Append(@, current_timestamp)]

R_SetEvictable(frame_id, set_evictable) ==
  /\ ReplacerCall("SetEvictable",
                  SetEvictable(PoolState, frame_id, set_evictable), frame_id,
                  TRUE)
  /\ UNCHANGED access_log

\* BUSTUB_ASSERT(evictable_[frame_id]) on a frame with history: a build that
\* keeps the assertion aborts, one that compiles it out clears the history
R_Remove(frame_id) ==
  \/ /\ ReplacerCall("Remove", Remove(PoolState, frame_id), frame_id, TRUE)
     /\ access_log' = [access_log EXCEPT ![frame_id] = <<>>]
  \/ /\ accesss_history[frame_id] # <<>>
     /\ ~evictable[frame_id]
     /\ ReplacerCall("abort", PoolState, frame_id, FALSE)
     /\ UNCHANGED access_log

R_Evict ==
  LET e == Evict(PoolState)
  IN  /\ ReplacerCall("Evict", e.s, e.frame_id, e.status)
      /\ access_log' = IF e.status
                       THEN [access_log EXCEPT ![e.frame_id] = <<>>]
                       ELSE access_log

\* SpecReplacer: an LRUKReplacer of NumReplacerFrames frames with k from 1 to
\* ReplacerK, driven through its public calls
InitReplacer == ReplacerInit(NumReplacerFrames, 1..ReplacerK)

NextReplacer ==
  \/ pool_calls < MaxReplacerCalls /\ \E f \in ReplacerFrames : R_RecordAccess(f)
  \/ /\ pool_calls < MaxReplacerCalls
     /\ \E f \in ReplacerFrames, b \in BOOLEAN : R_SetEvictable(f, b)
  \/ pool_calls < MaxReplacerCalls /\ \E f \in ReplacerFrames : R_Remove(f)
  \/ pool_calls < MaxReplacerCalls /\ R_Evict

SpecReplacer == InitReplacer /\ [][NextReplacer]_vars

\* the frames Evict chooses among
Candidates == {f \in ReplacerFrames : evictable[f] /\ access_log[f] # <<>>}

\* f has fewer than k_ accesses: its backward K-distance is infinite
Infinite(f) == Len(access_log[f]) < k_

\* the k_-th most recent access of a frame with at least k_ accesses
KthRecent(f) == access_log[f][Len(access_log[f]) - k_ + 1]

\* the backward K-distance of f is at least that of g
FartherOrEqual(f, g) ==
  \/ Infinite(f)
  \/ ~Infinite(g) /\ current_timestamp - KthRecent(f) >= current_timestamp - KthRecent(g)

\* the earliest access on record of f
Earliest(f) == access_log[f][1]

\* f is the frame of maximum backward K-distance, the earliest recorded
\* timestamp deciding among equals
LruKVictim(f) ==
  /\ f \in Candidates
  /\ \A g \in Candidates \ {f} :
       /\ FartherOrEqual(f, g)
       /\ FartherOrEqual(g, f) => Earliest(f) < Earliest(g)

\* C18: Evict returns, among the evictable frames with history, the one of
\* maximum backward K-distance, where a frame with fewer than K accesses has
\* infinite distance and the earliest recorded timestamp breaks ties, and it
\* clears the history of the frame it returns.
C18_EvictMaxKDistance ==
  [][(pool_result'.op = "Evict" /\ pool_result'.ok)
       => \E f \in ReplacerFrames :
            /\ pool_result'.frame_id = f
            /\ LruKVictim(f)
            /\ accesss_history'[f] = <<>>
            /\ \A g \in ReplacerFrames \ {f} :
                 accesss_history'[g] = accesss_history[g]]_vars

\* with K = 2 Evict has just returned a frame with a single access although
\* another evictable frame, with two accesses, was accessed earlier
C18_Witness ==
  /\ k_ = 2
  /\ pool_result.op = "Evict"
  /\ pool_result.ok
  /\ \E g \in Candidates :
       /\ Len(access_log[g]) = 2
       /\ access_log[g][1] = 0
  /\ current_timestamp = 3
  /\ accesss_history[pool_result.frame_id] = <<>>

\* the latest access of a frame with history
Latest(f) == access_log[f][Len(access_log[f])]

\* C19: with K = 1 Evict is LRU: it returns the evictable frame whose latest
\* access is the oldest; and whatever K is, Evict returns none and changes
\* nothing when no evictable frame has history.
C19_K1IsLru ==
  [][pool_result'.op = "Evict"
       => IF Candidates = {}
          THEN /\ ~pool_result'.ok
               /\ accesss_history' = accesss_history
               /\ evictable' = evictable
               /\ current_timestamp' = current_timestamp
          ELSE k_ = 1 =>
                 \E f \in Candidates :
                   /\ pool_result'.ok
                   /\ pool_result'.frame_id = f
                   /\ \A g \in Candidates \ {f} : Latest(f) < Latest(g)]_vars

\* with K = 1 Evict has just returned a frame and passed over an evictable
\* frame that was accessed first of all, at time 0, and again later
C19_Witness ==
  /\ k_ = 1
  /\ pool_result.op = "Evict"
  /\ pool_result.ok
  /\ \E g \in Candidates :
       /\ Len(access_log[g]) >= 2
       /\ access_log[g][1] = 0
       /\ g # pool_result.frame_id

\* ---------------------------------------------------------------------
\* The extendible hash table (ExtendibleHashTable, HashTableBucketPage,
\* HashTableDirectoryPage).  Two sources implement it: the one whose calls
\* hold table_latch_ from WLock to WUnlock ("latched"; each such section
\* is one action, and a caller that released the latch before calling
\* SplitInsert or Merge is pending), and the one whose latch calls are
\* commented out ("unlatched"; its calls are run one at a time, each as
\* one action).  Pages are taken from a buffer pool large enough to hold
\* them: NewPage returns a zeroed page under the next page id, DeletePage
\* drops the page.
\* ---------------------------------------------------------------------
\* the directory arrays hold 2^MaxGlobalDepth slots
MaxGlobalDepth == 2
BUCKET_ARRAY_SIZE == 2
NumTableKeys == 5
NumTableValues == 1
NumTableThreads == 2
\* budget of steps of SpecTable
MaxTableCalls == 7

DIRECTORY_ARRAY_SIZE == 2^MaxGlobalDepth
\* the constructor takes up to three page ids and every step at most one
MaxTablePages == MaxTableCalls + 3

DirSlots == 0..(DIRECTORY_ARRAY_SIZE - 1)
BucketSlots == 0..(BUCKET_ARRAY_SIZE - 1)
TableKeys == 0..(NumTableKeys - 1)
TableValues == 1..NumTableValues
TableThreads == 1..NumTableThreads
TablePageIds == 0..(MaxTablePages - 1)
TableVersions == {"latched", "unlatched"}

\* what bucket_pages holds for a page id that is not a bucket page
NO_BUCKET == <<>>

\* hash_fn_ is the caller's; this one sends two of the keys to one hash
Hash(key) == key % DIRECTORY_ARRAY_SIZE

\* the table's pages as one value
TableState ==
  [global_depth |-> global_depth, bucket_page_ids |-> bucket_page_ids,
   local_depths |-> local_depths, bucket_pages |-> bucket_pages,
   next_page_id |-> table_next_page_id]

\* ---- HashTableDirectoryPage
DirSize(h) == 2^h.global_depth
GetLocalHighBit(h, bucket_idx) == 2^h.local_depths[bucket_idx]
\* x & GetLocalDepthMask(bucket_idx)
LocalIndex(h, x, bucket_idx) == x % (2^h.local_depths[bucket_idx])
\* Hash(key) & GetGlobalDepthMask()
KeyToDirectoryIndex(key, h) == Hash(key) % DirSize(h)
KeyToPageId(key, h) == h.bucket_page_ids[KeyToDirectoryIndex(key, h)]
\* the slots a do-while loop visits from idx in steps of inc
Stride(h, idx, inc) ==
  {(idx + n * inc) % DirSize(h) : n \in 0..(DirSize(h) - 1)}

\* ---- HashTableBucketPage
EmptySlot == [key |-> 0, value |-> 0, occupied |-> FALSE, readable |-> FALSE]
\* a page after ResetMemory
ZeroedBucketPage == [i \in BucketSlots |-> EmptySlot]

\* the slots a scan reaches before its break at the first unoccupied one
Scanned(b) == {i \in BucketSlots : \A j \in 0..i : b[j].occupied}
NumReadable(b) == Cardinality({i \in Scanned(b) : b[i].readable})
IsFull(b) == NumReadable(b) = BUCKET_ARRAY_SIZE
IsEmpty(b) == NumReadable(b) = 0
Matches(b, i, key, value) ==
  b[i].readable /\ b[i].key = key /\ b[i].value = value

Bucket_Insert(b, key, value) ==
  IF IsFull(b) THEN [page |-> b, ok |-> FALSE]
  ELSE IF \E i \in Scanned(b) : Matches(b, i, key, value)
  THEN [page |-> b, ok |-> FALSE]
  ELSE LET tombstones == {i \in Scanned(b) : ~b[i].readable}
           i == IF tombstones # {} THEN Min(tombstones)
                ELSE Cardinality(Scanned(b))
       IN  [page |-> [b EXCEPT ![i] = [key |-> key, value |-> value,
                                       occupied |-> TRUE, readable |-> TRUE]],
            ok |-> TRUE]

Bucket_RemoveAt(b, i) == [b EXCEPT ![i].readable = FALSE]

Bucket_Remove(b, key, value) ==
  LET found == {i \in Scanned(b) : Matches(b, i, key, value)}
  IN  IF found = {} THEN [page |-> b, ok |-> FALSE]
      ELSE [page |-> Bucket_RemoveAt(b, Min(found)), ok |-> TRUE]

\* the values GetValue collects for key
Bucket_GetValue(b, key) ==
  {b[i].value : i \in {j \in Scanned(b) : b[j].readable /\ b[j].key = key}}

\* the split image after the loop that moves the slots in `move` of the
\* bucket b to it, from slot i on
RECURSIVE MoveTo(_, _, _, _)
MoveTo(split_image, b, move, i) ==
  IF i = BUCKET_ARRAY_SIZE THEN split_image
  ELSE MoveTo(IF i \in move
              THEN Bucket_Insert(split_image, b[i].key, b[i].value).page
              ELSE split_image,
              b, move, i + 1)
\* the bucket after the same loop
MovedFrom(b, move) ==
  [i \in BucketSlots |-> IF i \in move THEN [b[i] EXCEPT !.readable = FALSE]
                         ELSE b[i]]

\* ---- ExtendibleHashTable, the source that holds table_latch_
\* A section's outcome is [h, status, next]: the pages it leaves, the value
\* it returns or hands on, and what its caller does next ("done": return;
\* "SplitInsert", "Merge": call it with the latch released; "overflow": the
\* directory arrays are full; "abort": an assert of the section failed).
Double(h) ==
  [h EXCEPT !.bucket_page_ids =
              [i \in DirSlots |-> IF i >= DirSize(h) /\ i < 2 * DirSize(h)
                                  THEN @[i - DirSize(h)] ELSE @[i]],
            !.local_depths =
              [i \in DirSlots |-> IF i >= DirSize(h) /\ i < 2 * DirSize(h)
                                  THEN @[i - DirSize(h)] ELSE @[i]],
            !.global_depth = @ + 1]

HT_Insert(h, key, value) ==
  LET bucket_page_id == KeyToPageId(key, h)
      bucket_page == h.bucket_pages[bucket_page_id]
      r == Bucket_Insert(bucket_page, key, value)
  IN  IF IsFull(bucket_page)
      THEN [h |-> h, status |-> FALSE, next |-> "SplitInsert"]
      ELSE [h |-> [h EXCEPT !.bucket_pages[bucket_page_id] = r.page],
            status |-> r.ok, next |-> "done"]

HT_SplitInsert(h, key, value) ==
  LET bucket_idx == KeyToDirectoryIndex(key, h)
      bucket_page_id == KeyToPageId(key, h)
      bucket_page == h.bucket_pages[bucket_page_id]
      r == Bucket_Insert(bucket_page, key, value)
      no_split_image == h.global_depth = h.local_depths[bucket_idx]
      doubled == IF no_split_image THEN Double(h) ELSE h
      split_image_page_id == h.next_page_id
      old_local_depth == doubled.local_depths[bucket_idx]
      \* the first loop: every slot of the bucket gets one more bit
      first == Stride(doubled, bucket_idx, GetLocalHighBit(doubled, bucket_idx))
      deeper == [doubled EXCEPT !.local_depths =
                   [i \in DirSlots |-> IF i \in first THEN @[i] + 1 ELSE @[i]]]
      \* the second loop: the slots that agree with bucket_idx on the new
      \* bit go to the split image
      second == Stride(deeper, bucket_idx, GetLocalHighBit(deeper, bucket_idx))
      pointed == [deeper EXCEPT !.bucket_page_ids =
                    [i \in DirSlots |-> IF i \in second
                                        THEN split_image_page_id ELSE @[i]]]
      asserts == /\ \A i \in first : doubled.local_depths[i] = old_local_depth
                 /\ \A i \in second : deeper.bucket_page_ids[i] = bucket_page_id
      new_bucket_idx == LocalIndex(pointed, bucket_idx, bucket_idx)
      move == {i \in BucketSlots :
                 LocalIndex(pointed, Hash(bucket_page[i].key), bucket_idx)
                   = new_bucket_idx}
  IN  IF ~IsFull(bucket_page)
      THEN [h |-> [h EXCEPT !.bucket_pages[bucket_page_id] = r.page],
            status |-> r.ok, next |-> "done"]
      ELSE IF no_split_image /\ h.global_depth = MaxGlobalDepth
      THEN [h |-> h, status |-> FALSE, next |-> "overflow"]
      ELSE IF ~asserts
      THEN [h |-> h, status |-> FALSE, next |-> "abort"]
      ELSE [h |-> [pointed EXCEPT
                     !.bucket_pages[bucket_page_id] =
                        MovedFrom(bucket_page, move),
                     !.bucket_pages[split_image_page_id] =
                        MoveTo(ZeroedBucketPage, bucket_page, move, 0),
                     !.next_page_id = @ + 1],
            status |-> FALSE, next |-> "SplitInsert"]

HT_Remove(h, key, value) ==
  LET bucket_page_id == KeyToPageId(key, h)
      r == Bucket_Remove(h.bucket_pages[bucket_page_id], key, value)
  IN  [h |-> [h EXCEPT !.bucket_pages[bucket_page_id] = r.page],
       status |-> r.ok,
       next |-> IF r.ok /\ IsEmpty(r.page) THEN "Merge" ELSE "done"]

\* status is the value the pending Remove returns once Merge is over
HT_Merge(h, key, status) ==
  LET bucket_page_id == KeyToPageId(key, h)
      bucket_page == h.bucket_pages[bucket_page_id]
      bucket_idx == KeyToDirectoryIndex(key, h)
      local_depth == h.local_depths[bucket_idx]
      inc == GetLocalHighBit(h, bucket_idx) \div 2
      split_image_idx == (bucket_idx + inc) % DirSize(h)
      split_image_depth == h.local_depths[split_image_idx]
      visited == Stride(h, bucket_idx, inc)
  IN  IF IsEmpty(bucket_page) /\ local_depth # 0
         /\ split_image_depth = local_depth
      THEN IF \E i \in visited : h.local_depths[i] # local_depth
           THEN [h |-> h, status |-> status, next |-> "abort"]
           ELSE [h |-> [h EXCEPT
                          !.bucket_page_ids =
                             [i \in DirSlots |->
                                IF i \in visited THEN @[split_image_idx]
                                ELSE @[i]],
                          !.local_depths =
                             [i \in DirSlots |-> IF i \in visited
                                                 THEN @[i] - 1 ELSE @[i]],
                          !.bucket_pages[bucket_page_id] = NO_BUCKET],
                 status |-> status, next |-> "done"]
      ELSE [h |-> h, status |-> status, next |-> "done"]

\* ---- ExtendibleHashTable, the source whose latch calls are commented out
\* A slot of this source can come to hold the id of a page that is not a
\* bucket page; a call that fetches such a page as a bucket ends the run
\* ("abort").
IsBucket(h, page_id) ==
  page_id \in TablePageIds /\ h.bucket_pages[page_id] # NO_BUCKET

HT_SplitInsert_unlatched(h, key, value) ==
  LET bucket_idx == KeyToDirectoryIndex(key, h)
      bucket_page_id == KeyToPageId(key, h)
      bucket_page == h.bucket_pages[bucket_page_id]
      old_size == DirSize(h)
      \* the page ids are copied to the new half, the local depths are not
      doubled == [h EXCEPT !.global_depth = @ + 1,
                           !.bucket_page_ids =
                              [i \in DirSlots |->
                                 IF i >= old_size /\ i < 2 * old_size
                                 THEN @[i - old_size] ELSE @[i]]]
      split_image_idx == bucket_idx + old_size
      split_image_page_id == h.next_page_id
      pointed == [doubled EXCEPT
                    !.bucket_page_ids[split_image_idx] = split_image_page_id,
                    !.local_depths[bucket_idx] = @ + 1,
                    !.local_depths[split_image_idx] = @ + 1]
      move == {i \in BucketSlots :
                 KeyToDirectoryIndex(bucket_page[i].key, pointed) # bucket_idx}
      moved == [pointed EXCEPT
                  !.bucket_pages[bucket_page_id] = MovedFrom(bucket_page, move),
                  !.bucket_pages[split_image_page_id] =
                     MoveTo(ZeroedBucketPage, bucket_page, move, 0),
                  !.next_page_id = @ + 1]
      \* retry insert
      retry_page_id == KeyToPageId(key, moved)
      r == Bucket_Insert(moved.bucket_pages[retry_page_id], key, value)
  IN  IF h.global_depth = MaxGlobalDepth
      THEN [h |-> h, status |-> FALSE, next |-> "overflow"]
      ELSE IF ~IsBucket(moved, retry_page_id)
      THEN [h |-> moved, status |-> FALSE, next |-> "abort"]
      ELSE [h |-> [moved EXCEPT !.bucket_pages[retry_page_id] = r.page],
            status |-> r.ok, next |-> "done"]

HT_Insert_unlatched(h, key, value) ==
  LET bucket_page_id == KeyToPageId(key, h)
      bucket_page == h.bucket_pages[bucket_page_id]
      r == Bucket_Insert(bucket_page, key, value)
  IN  IF ~IsBucket(h, bucket_page_id)
      THEN [h |-> h, status |-> FALSE, next |-> "abort"]
      ELSE IF IsFull(bucket_page)
      THEN HT_SplitInsert_unlatched(h, key, value)
      ELSE [h |-> [h EXCEPT !.bucket_pages[bucket_page_id] = r.page],
            status |-> r.ok, next |-> "done"]

HT_Merge_unlatched(h, key, status) ==
  LET bucket_page_id == KeyToPageId(key, h)
      bucket_page == h.bucket_pages[bucket_page_id]
      bucket_idx == KeyToDirectoryIndex(key, h)
      local_depth == h.local_depths[bucket_idx]
      split_image_idx == (bucket_idx + DirSize(h) \div 2) % DirSize(h)
      split_image_depth == h.local_depths[split_image_idx]
  IN  IF IsEmpty(bucket_page) /\ local_depth # 0
         /\ split_image_depth = local_depth
      THEN \* the slot is given the split image's index, not its page id
           [h |-> [h EXCEPT !.bucket_page_ids[bucket_idx] = split_image_idx,
                            !.bucket_pages[bucket_page_id] = NO_BUCKET],
            status |-> status, next |-> "done"]
      ELSE [h |-> h, status |-> status, next |-> "done"]

HT_Remove_unlatched(h, key, value) ==
  LET bucket_page_id == KeyToPageId(key, h)
      r == Bucket_Remove(h.bucket_pages[bucket_page_id], key, value)
      removed == [h EXCEPT !.bucket_pages[bucket_page_id] = r.page]
  IN  IF ~IsBucket(h, bucket_page_id)
      THEN [h |-> h, status |-> FALSE, next |-> "abort"]
      ELSE IF IsEmpty(r.page)
      THEN HT_Merge_unlatched(removed, key, r.ok)
      ELSE [h |-> removed, status |-> r.ok, next |-> "done"]

\* ---- the table's steps
NoCall == [op |-> "none", key |-> 0, value |-> 0, status |-> FALSE]

TableInit(versions) ==
  /\ table_version \in versions
  /\ global_depth = IF table_version = "latched" THEN 0 ELSE 1
  \* page 0 is the directory page, the bucket pages follow it
  /\ bucket_page_ids =
       [i \in DirSlots |-> IF i = 0 THEN 1
                           ELSE IF i = 1 /\ table_version = "unlatched" THEN 2
                           ELSE 0]
  /\ local_depths =
       [i \in DirSlots |-> IF i \in {0, 1} /\ table_version = "unlatched"
                           THEN 1 ELSE 0]
  /\ bucket_pages =
       [p \in TablePageIds |->
          IF p = 1 \/ (p = 2 /\ table_version = "unlatched")
          THEN ZeroedBucketPage ELSE NO_BUCKET]
  /\ table_next_page_id = IF table_version = "latched" THEN 2 ELSE 3
  /\ pending = [t \in TableThreads |-> NoCall]
  /\ table_result = [op |-> "none", call |-> "none", thread |-> 0, key |-> 0,
                     value |-> 0, status |-> FALSE, next |-> "done"]
  /\ table_calls = 0
  /\ LockUnused
  /\ PoolUnused
  /\ TreeUnused

\* the frame of a step of thread t: the section op of the call `call`
\* ends with the outcome r
TableStep(t, op, call, key, value, r) ==
  /\ table_calls < MaxTableCalls
  /\ table_result.next \notin {"overflow", "abort"}
  /\ global_depth' = r.h.global_depth
  /\ bucket_page_ids' = r.h.bucket_page_ids
  /\ local_depths' = r.h.local_depths
  /\ bucket_pages' = r.h.bucket_pages
  /\ table_next_page_id' = r.h.next_page_id
  /\ pending' = [pending EXCEPT ![t] =
                   IF r.next \in {"SplitInsert", "Merge"}
                   THEN [op |-> r.next, key |-> key, value |-> value,
                         status |-> r.status]
                   ELSE NoCall]
  /\ table_result' = [op |-> op, call |-> call, thread |-> t, key |-> key,
                      value |-> value, status |-> r.status, next |-> r.next]
  /\ table_calls' = table_calls + 1
  /\ UNCHANGED <<table_version, outside_table>>

TableInsert(t, key, value) ==
  /\ table_version = "latched"
  /\ pending[t].op = "none"
  /\ TableStep(t, "Insert", "Insert", key, value,
               HT_Insert(TableState, key, value))

TableSplitInsert(t) ==
  /\ table_version = "latched"
  /\ pending[t].op = "SplitInsert"
  /\ TableStep(t, "SplitInsert", "Insert", pending[t].key, pending[t].value,
               HT_SplitInsert(TableState, pending[t].key, pending[t].value))

TableRemove(t, key, value) ==
  /\ table_version = "latched"
  /\ pending[t].op = "none"
  /\ TableStep(t, "Remove", "Remove", key, value,
               HT_Remove(TableState, key, value))

TableMerge(t) ==
  /\ table_version = "latched"
  /\ pending[t].op = "Merge"
  /\ TableStep(t, "Merge", "Remove", pending[t].key, pending[t].value,
               HT_Merge(TableState, pending[t].key, pending[t].status))

TableInsertUnlatched(key, value) ==
  /\ table_version = "unlatched"
  /\ TableStep(1, "Insert", "Insert", key, value,
               HT_Insert_unlatched(TableState, key, value))

TableRemoveUnlatched(key, value) ==
  /\ table_version = "unlatched"
  /\ TableStep(1, "Remove", "Remove", key, value,
               HT_Remove_unlatched(TableState, key, value))

InitTable == TableInit(TableVersions)

NextTable ==
  \/ \E t \in TableThreads, key \in TableKeys, value \in TableValues :
       TableInsert(t, key, value)
  \/ \E t \in TableThreads : TableSplitInsert(t)
  \/ \E t \in TableThreads, key \in TableKeys, value \in TableValues :
       TableRemove(t, key, value)
  \/ \E t \in TableThreads : TableMerge(t)
  \/ \E key \in TableKeys, value \in TableValues :
       TableInsertUnlatched(key, value)
  \/ \E key \in TableKeys, value \in TableValues :
       TableRemoveUnlatched(key, value)

SpecTable == InitTable /\ [][NextTable]_vars

\* the directory slots in use
Slots == 0..(2^global_depth - 1)
LowBits(i, depth) == i % (2^depth)
\* the last step returned from an Insert or a Remove
Completed == table_result.call \in {"Insert", "Remove"} /\ table_result.next = "done"

DirectoryInvariant ==
  \A i \in Slots :
    /\ local_depths[i] <= global_depth
    /\ \A j \in Slots :
         (LowBits(j, local_depths[i]) = LowBits(i, local_depths[i]))
           <=> (bucket_page_ids[j] = bucket_page_ids[i])

\* C20: after every completed Insert or Remove, every directory slot's
\* local depth is at most the global depth, and a slot references the
\* bucket of slot i exactly if it agrees with i on the low local-depth
\* bits of i.
C20_DirectoryInvariant == Completed => DirectoryInvariant

\* the same, at every step of the source that holds the latch
C20_DirectoryInvariant_latched ==
  table_version = "latched" => DirectoryInvariant

\* no assert of the latched source fails
C20_NoAbort_latched ==
  table_version = "latched" => table_result.next # "abort"

\* every slot in use references a page that is a bucket page
SlotsReferenceBuckets ==
  \A i \in Slots : IsBucket(TableState, bucket_page_ids[i])

\* the slots of the latched source reference bucket pages at every step
C20_SlotsReferenceBuckets_latched ==
  table_version = "latched" => SlotsReferenceBuckets

\* the same of either source, after a completed call
C20_SlotsReferenceBuckets == Completed => SlotsReferenceBuckets

\* ---- lookups and repeated inserts of one key
\* the values GetValue collects for key
HT_GetValue(h, key) ==
  Bucket_GetValue(h.bucket_pages[KeyToPageId(key, h)], key)

\* the readable entries of key in the bucket pages
Entries(key) ==
  {<<p, i>> \in TablePageIds \X BucketSlots :
     /\ bucket_pages[p] # NO_BUCKET
     /\ bucket_pages[p][i].readable
     /\ bucket_pages[p][i].key = key}

NumUpsertValues == 2
MaxUpsertCalls == 4
UpsertValues == 1..NumUpsertValues

InitUpsert == TableInit({"latched"})

NextUpsert ==
  \/ /\ table_calls < MaxUpsertCalls
     /\ \E t \in TableThreads, key \in TableKeys, value \in UpsertValues :
          TableInsert(t, key, value)
  \/ /\ table_calls < MaxUpsertCalls
     /\ \E t \in TableThreads : TableSplitInsert(t)

SpecUpsert == InitUpsert /\ [][NextUpsert]_vars

\* C21: an Insert of a key that is present replaces its value: when an
\* Insert(k, v) returns and k had an entry before, a lookup of k yields v
\* only and the table holds exactly one entry of k.
C21_InsertReplaces ==
  [][\A k \in TableKeys :
       (/\ table_result'.call = "Insert" /\ table_result'.next = "done"
        /\ table_calls' # table_calls
        /\ table_result'.key = k
        /\ Entries(k) # {})
       => /\ HT_GetValue(TableState, k)' = {table_result'.value}
          /\ Cardinality(Entries(k)') = 1]_vars

\* what the bucket page does: an Insert of a present key with a value the
\* key does not have yet adds a second entry, and the lookup yields both
C21_InsertAdds ==
  [][\A k \in TableKeys :
       (/\ table_result'.call = "Insert" /\ table_result'.next = "done"
        /\ table_calls' # table_calls
        /\ table_result'.key = k)
       => /\ table_result'.status <=>
               table_result'.value \notin HT_GetValue(TableState, k)
          /\ HT_GetValue(TableState, k)'
               = HT_GetValue(TableState, k) \cup {table_result'.value}]_vars

\* ------------------------------------------- the lock manager's mutexes
\* SpecLatch: NumLatchTxns transactions, each on a thread of its own, taking
\* S and X locks on the tables under REPEATABLE_READ, and the detector
\* thread.  A step is what a thread does between two points where it may
\* have to wait: for a mutex, or on a queue's condition variable.
NumLatchTxns == 2
MaxLatchCalls == 4

LatchTxns == 1..NumLatchTxns
LatchResources == TableRes

\* the thread running RunCycleDetection (cycle_detection_thread_)
Detector == 0

Threads == LatchTxns \cup {Detector}

\* the three kinds of mutex: the two map latches and every queue's latch_
TableMapLatch == [kind |-> "table_lock_map_latch_", r |-> NoRes]
RowMapLatch == [kind |-> "row_lock_map_latch_", r |-> NoRes]
QueueLatch(r) == [kind |-> "latch_", r |-> r]

\* the latch GetQueue takes to look resource r up
MapLatch(r) == IF r.on_table THEN TableMapLatch ELSE RowMapLatch

NoCur == [op |-> "none", lock_mode |-> "S", r |-> NoRes]

Holding(th, l) == \E i \in DOMAIN held[th] : held[th][i] = l

\* std::mutex: lock() returns only when no thread owns the mutex
NotOwned(l) == \A th \in Threads : ~Holding(th, l)

Acquired(th, l) == [held EXCEPT ![th] = Append(@, l)]

Released(th, l) == [held EXCEPT ![th] = SelectSeq(@, LAMBDA x : x # l)]

\* cv_.notify_all() on the queues R, applied to the positions p: the threads
\* blocked in cv_.wait on one of them become runnable
Notified(p, R) ==
  [th \in Threads |->
     IF th # Detector /\ p[th] = "cv_wait" /\ waiting[th] \in R
     THEN "woken" ELSE p[th]]

\* LockTable reaches "queue->upgrading_ = txn_id; UnlockTableHelper(...)"
TakesUpgrade(t, lock_mode, r) ==
  /\ LockPreCheck(t, lock_mode, r.on_table, r.oid) = "OK"
  /\ GetTableLockMode(t, r.oid) \notin {"NONE", lock_mode}
  /\ Upgradable(GetTableLockMode(t, r.oid), lock_mode)
  /\ ~UpgradeConflict(upgrading[r])

\* LockTable reaches its wait loop (and the notify_all after it)
EntersWaitLoop(t, lock_mode, r) ==
  /\ LockPreCheck(t, lock_mode, r.on_table, r.oid) = "OK"
  /\ GetTableLockMode(t, r.oid) = "NONE" \/ TakesUpgrade(t, lock_mode, r)

\* the end of a step made under the mutex of queue r: the thread stays in
\* the wait loop with the mutex (IsGranted returned false), or leaves the
\* call, which releases the mutex, after notify_all where the code has one
Finish(t, r, stay, notify) ==
  /\ pc' = IF stay THEN [pc EXCEPT ![t] = "wait"]
           ELSE IF notify THEN Notified([pc EXCEPT ![t] = "idle"], {r})
           ELSE [pc EXCEPT ![t] = "idle"]
  /\ held' = [held EXCEPT ![t] = IF stay THEN <<QueueLatch(r)>> ELSE <<>>]
  /\ cur' = IF stay THEN cur ELSE [cur EXCEPT ![t] = NoCur]

outside_latch == <<pool_vars, parallel_vars, table_vars, tree_vars>>

\* a thread enters LockTable or UnlockTable and, in GetQueue, takes the map
\* latch.  Only a lock the transaction holds is unlocked.
L_Call(t, op, lock_mode, r) ==
  /\ pc[t] = "idle"
  /\ op = "Unlock" => GetTableLockMode(t, r.oid) # "NONE"
  /\ NotOwned(MapLatch(r))
  /\ pc' = [pc EXCEPT ![t] = "GetQueue"]
  /\ held' = Acquired(t, MapLatch(r))
  /\ cur' = [cur EXCEPT ![t] = [op |-> op, lock_mode |-> lock_mode, r |-> r]]
  /\ UNCHANGED <<lock_vars, scanned, outside_latch>>

\* GetQueue returns the queue: its unique_lock releases the map latch
L_GetQueueReturn(t) ==
  /\ pc[t] = "GetQueue"
  /\ pc' = [pc EXCEPT ![t] = "queue"]
  /\ held' = Released(t, MapLatch(cur[t].r))
  /\ UNCHANGED <<lock_vars, cur, scanned, outside_latch>>

\* "std::unique_lock<std::mutex> lock(queue->latch_)" and what follows under
\* it: UnlockTableHelper to its return; LockTable to its return, to its
\* call of UnlockTableHelper (an upgrade) or into the wait loop
L_LockQueue(t) ==
  LET c == cur[t]
  IN  /\ pc[t] = "queue"
      /\ NotOwned(QueueLatch(c.r))
      /\ IF c.op = "Unlock"
         THEN Unlock(t, c.r) /\ Finish(t, c.r, FALSE, result' = "true")
         ELSE IF TakesUpgrade(t, c.lock_mode, c.r)
         THEN /\ pc' = [pc EXCEPT ![t] = "upgrade"]
              /\ held' = Acquired(t, QueueLatch(c.r))
              /\ UNCHANGED <<lock_vars, cur>>
         ELSE /\ Lock(t, c.lock_mode, c.r)
              /\ Finish(t, c.r, result' = "wait",
                        EntersWaitLoop(t, c.lock_mode, c.r))
      /\ UNCHANGED <<scanned, outside_latch>>

\* the upgrade calls UnlockTableHelper(txn, oid, true), whose first
\* statement is GetQueue(oid): the map latch, under the queue's mutex and
\* the transaction's
L_UpgradeGetQueue(t) ==
  /\ pc[t] = "upgrade"
  /\ NotOwned(MapLatch(cur[t].r))
  /\ pc' = [pc EXCEPT ![t] = "upgrade_GetQueue"]
  /\ held' = Acquired(t, MapLatch(cur[t].r))
  /\ UNCHANGED <<lock_vars, cur, scanned, outside_latch>>

\* GetQueue returns; the rest of the helper and of LockTable
L_Upgrade(t) ==
  /\ pc[t] = "upgrade_GetQueue"
  /\ Lock(t, cur[t].lock_mode, cur[t].r)
  /\ Finish(t, cur[t].r, result' = "wait", TRUE)
  /\ UNCHANGED <<scanned, outside_latch>>

\* queue->cv_.wait(lock): the mutex is released and the thread blocks
L_CvWait(t) ==
  /\ pc[t] = "wait"
  /\ pc' = [pc EXCEPT ![t] = "cv_wait"]
  /\ held' = [held EXCEPT ![t] = <<>>]
  /\ UNCHANGED <<lock_vars, cur, scanned, outside_latch>>

\* a notified thread takes the mutex again, wait returns and the loop
\* evaluates IsGranted
L_Wake(t) ==
  /\ pc[t] = "woken"
  /\ NotOwned(QueueLatch(waiting[t]))
  /\ Await(t, waiting[t], request_queue[waiting[t]], upgrading[waiting[t]],
           LockSets, arrival[waiting[t]])
  /\ Finish(t, waiting[t], result' = "wait", TRUE)
  /\ UNCHANGED <<isolation_level, waits_for, victims, calls, scanned,
                 outside_latch>>

\* a thread holds its transaction's mutex (LockTxn) across steps only
\* between the start of an upgrade and the helper's return
TxnLatched(t) == pc[t] \in {"upgrade", "upgrade_GetQueue"}

\* RunCycleDetection wakes up: table_lock_map_latch_
D_LockTableMap ==
  /\ pc[Detector] = "idle"
  /\ NotOwned(TableMapLatch)
  /\ pc' = [pc EXCEPT ![Detector] = "table_latched"]
  /\ held' = Acquired(Detector, TableMapLatch)
  /\ UNCHANGED <<lock_vars, cur, scanned, outside_latch>>

\* row_lock_map_latch_, then BuildWaitsForGraph starts: waits_for_.clear()
D_LockRowMap ==
  /\ pc[Detector] = "table_latched"
  /\ NotOwned(RowMapLatch)
  /\ pc' = [pc EXCEPT ![Detector] = "build"]
  /\ held' = Acquired(Detector, RowMapLatch)
  /\ waits_for' = [u \in Txns |-> <<>>]
  /\ scanned' = {}
  /\ UNCHANGED <<request_queue, upgrading, arrival, state, isolation_level,
                 table_lock_set, row_lock_set, waiting, victims, result,
                 calls, cur, outside_latch>>

\* the loops of BuildWaitsForGraph take the mutex of the next queue, the
\* table queues before the row queues, in the order of the unordered_map
\* (any); a queue no call has created yet is an empty one here
D_LockQueue(r) ==
  /\ pc[Detector] = "build"
  /\ r \in LatchResources \ scanned
  /\ r.on_table \/ \A x \in LatchResources : x.on_table => x \in scanned
  /\ NotOwned(QueueLatch(r))
  /\ pc' = [pc EXCEPT ![Detector] = "scan"]
  /\ held' = Acquired(Detector, QueueLatch(r))
  /\ UNCHANGED <<lock_vars, cur, scanned, outside_latch>>

\* number of AddEdge(u, v) calls the loop body makes on queue q
QueueEdgeCount(q, u, v) ==
  Cardinality({p \in (1..Len(q)) \X (1..Len(q)) :
                 /\ p[1] < p[2]
                 /\ q[p[1]].granted /\ q[p[1]].txn_id = u
                 /\ ~q[p[2]].granted /\ q[p[2]].txn_id = v})

RECURSIVE AdjAfter(_, _, _, _)
\* waits_for_[u] with the edges of queue q added (kept sorted: the vectors
\* are read only after the std::sort that ends BuildWaitsForGraph)
AdjAfter(adj, q, u, v) ==
  IF v > NumTxns THEN <<>>
  ELSE Repeat(v, Cardinality({i \in DOMAIN adj : adj[i] = v})
                 + QueueEdgeCount(q, u, v))
       \o AdjAfter(adj, q, u, v + 1)

\* the loop body on the queue whose mutex the detector holds; the mutex is
\* released where the body ends
D_Scan ==
  /\ pc[Detector] = "scan"
  /\ \E r \in LatchResources :
       /\ Holding(Detector, QueueLatch(r))
       /\ waits_for' = [u \in Txns |->
                          AdjAfter(waits_for[u], request_queue[r], u, 1)]
       /\ held' = Released(Detector, QueueLatch(r))
       /\ scanned' = scanned \cup {r}
  /\ pc' = [pc EXCEPT ![Detector] = "build"]
  /\ UNCHANGED <<request_queue, upgrading, arrival, state, isolation_level,
                 table_lock_set, row_lock_set, waiting, victims, result,
                 calls, cur, outside_latch>>

\* BuildWaitsForGraph has returned: the loop "while (HasCycle(&txn_id))",
\* which aborts each victim under the victim's mutex
D_Detect ==
  LET d == DetectLoop(waits_for, <<>>)
  IN  /\ pc[Detector] = "build"
      /\ scanned = LatchResources
      /\ \A i \in DOMAIN d.victims :
           d.victims[i] \in LatchTxns => ~TxnLatched(d.victims[i])
      /\ waits_for' = d.waits_for
      /\ victims' = d.victims
      /\ state' = [t \in Txns |->
                     IF \E i \in DOMAIN d.victims : d.victims[i] = t
                     THEN "ABORTED" ELSE state[t]]
      /\ pc' = [pc EXCEPT ![Detector] =
                  IF d.victims # <<>> THEN "NotifyAll" ELSE "release"]
      /\ UNCHANGED <<request_queue, upgrading, arrival, isolation_level,
                     table_lock_set, row_lock_set, waiting, result, calls,
                     held, cur, scanned, outside_latch>>

\* "if (has_cycle) NotifyAll()": notify_all on every queue, no queue mutex
D_NotifyAll ==
  /\ pc[Detector] = "NotifyAll"
  /\ pc' = Notified([pc EXCEPT ![Detector] = "release"], LatchResources)
  /\ UNCHANGED <<lock_vars, held, cur, scanned, outside_latch>>

\* the block ends: both map latches are released, and the thread sleeps
D_Release ==
  /\ pc[Detector] = "release"
  /\ pc' = [pc EXCEPT ![Detector] = "idle"]
  /\ held' = [held EXCEPT ![Detector] = <<>>]
  /\ scanned' = {}
  /\ UNCHANGED <<lock_vars, cur, outside_latch>>

InitLatch ==
  /\ LockInit({[t \in Txns |-> "REPEATABLE_READ"]})
  /\ PoolUnused
  /\ TableUnused
  /\ TreeUnused
  /\ pc = [th \in Threads |-> "idle"]
  /\ held = [th \in Threads |-> <<>>]
  /\ cur = [th \in Threads |-> NoCur]
  /\ scanned = {}

\* what the thread of transaction t does inside a call
WorkerStep(t) ==
  \/ L_GetQueueReturn(t)
  \/ L_LockQueue(t)
  \/ L_UpgradeGetQueue(t)
  \/ L_Upgrade(t)
  \/ L_CvWait(t)
  \/ L_Wake(t)

DetectorStep ==
  \/ D_LockTableMap
  \/ D_LockRowMap
  \/ \E r \in LatchResources : D_LockQueue(r)
  \/ D_Scan
  \/ D_Detect
  \/ D_NotifyAll
  \/ D_Release

\* the transaction's thread releases one of the locks it holds
UnlockSome(t) == \E r \in LatchResources : L_Call(t, "Unlock", "S", r)

\* a thread calls LockTable
LockSome(t) ==
  \E m \in {"S", "X"}, r \in LatchResources : L_Call(t, "Lock", m, r)

NextLatch ==
  \/ calls < MaxLatchCalls /\ \E t \in LatchTxns : LockSome(t)
  \/ \E t \in LatchTxns : UnlockSome(t)
  \/ \E t \in LatchTxns : WorkerStep(t)
  \/ DetectorStep

SpecLatch == InitLatch /\ [][NextLatch]_vars

\* ------------------------------------------------ claims on the mutexes
IsQueueLatch(l) == l.kind = "latch_"

\* thread th holds a map latch among the mutexes h[th]
HoldsMapLatch(h, th) == \E i \in DOMAIN h[th] : ~IsQueueLatch(h[th][i])

QueueLatchesOf(h, th) == {i \in DOMAIN h[th] : IsQueueLatch(h[th][i])}

\* thread th takes, or gives up, a queue's mutex in this step
AcquiresQueueLatch(th) ==
  \E i \in QueueLatchesOf(held', th) : ~Holding(th, held'[th][i])

ReleasesQueueLatch(th) ==
  \E i \in QueueLatchesOf(held, th) :
    \A j \in DOMAIN held'[th] : held'[th][j] # held[th][i]

LatchOrder(th) ==
  /\ AcquiresQueueLatch(th) => ~HoldsMapLatch(held, th)
  /\ ReleasesQueueLatch(th) => ~HoldsMapLatch(held', th)

C26_WorkerLatchOrder == [][\A th \in LatchTxns : LatchOrder(th)]_vars

\* a worker holds both mutexes (inside the helper an upgrade calls)
C26_WorkerHoldsBoth ==
  \E t \in LatchTxns : held[t] = <<QueueLatch(cur[t].r), TableMapLatch>>

\* the detector is past BuildWaitsForGraph: in the cycle search with its
\* abortions, or at the broadcast
PastBuild ==
  \/ pc[Detector] = "build" /\ scanned = LatchResources
  \/ pc[Detector] = "NotifyAll"

\* C27: during a tick the detector holds at most one queue mutex at a time,
\* and it holds the map latches only while the graph is built: it holds
\* neither during the cycle search, the abortion of victims and the
\* broadcast
C27_DetectorLatches ==
  /\ Cardinality(QueueLatchesOf(held, Detector)) <= 1
  /\ PastBuild => ~HoldsMapLatch(held, Detector)

\* the first half on its own
C27_OneQueueMutex == Cardinality(QueueLatchesOf(held, Detector)) <= 1

\* the detector holds both map latches from its wake-up to the end of the
\* tick
C27_MapLatchesThroughout ==
  pc[Detector] \notin {"idle", "table_latched"}
    => held[Detector][1] = TableMapLatch /\ held[Detector][2] = RowMapLatch

C27_ScanWitness ==
  /\ pc[Detector] = "scan"
  /\ \E t \in LatchTxns : pc[t] = "cv_wait"

\* SpecLatchFair: SpecLatch with every thread scheduled fairly (a thread
\* that can take a step again and again takes one), the detector ticking
\* for ever, and every transaction whose thread is in no call eventually
\* releasing the locks it holds
MaxFairCalls == 3

\* a thread calls LockTable on the first table
LockFirst(t) ==
  \E m \in {"S", "X"} :
    L_Call(t, "Lock", m, [on_table |-> TRUE, oid |-> 1, rid |-> 0])

\* the detector's steps while every request is on one queue: no transaction
\* is granted and waiting on the same queue, so the waits-for graph has no
\* cycle, D_Detect finds no victim and the broadcast D_NotifyAll is never
\* enabled (NoBroadcastOnOneTable)
DetectorStepOneTable ==
  \/ D_LockTableMap
  \/ D_LockRowMap
  \/ \E r \in LatchResources : D_LockQueue(r)
  \/ D_Scan
  \/ D_Detect
  \/ D_Release

NoBroadcastOnOneTable == pc[Detector] # "NotifyAll" /\ victims = <<>>

NextLatchFair ==
  \/ calls < MaxFairCalls /\ \E t \in LatchTxns : LockFirst(t)
  \/ \E t \in LatchTxns : UnlockSome(t)
  \/ \E t \in LatchTxns : WorkerStep(t)
  \/ DetectorStepOneTable

SpecLatchFair ==
  /\ InitLatch
  /\ [][NextLatchFair]_vars
  /\ \A t \in LatchTxns : SF_vars(WorkerStep(t)) /\ SF_vars(UnlockSome(t))
  /\ SF_vars(DetectorStepOneTable)

\* the thread of transaction t is in the wait loop of LockTable
Blocked(t) == pc[t] \in {"wait", "cv_wait", "woken"}

\* C28: every blocked LockTable call eventually returns
C28_BlockedReturns == \A t \in LatchTxns : Blocked(t) ~> pc[t] = "idle"

\* ------------------------------------------------------------ the B+ tree
\* Two sources of BPlusTree: "latched_pages" keeps the pages a writer has
\* latched in a deque of its own (b_plus_tree.cpp), "page_set" keeps them in
\* the transaction's page set and deletes merged pages when Remove ends.
\* SpecTree runs Insert and Remove one call at a time.
NumTreeKeys == 5
MaxTreeCalls == 8
MaxTreePages == 12

TreeKeys == 1..NumTreeKeys
TreeVersions == {"latched_pages", "page_set"}
\* the (leaf_max_size, internal_max_size) pairs a tree is constructed with
TreeSizes == {[leaf |-> 2, internal |-> 3], [leaf |-> 4, internal |-> 3]}

\* a page id no tree page is stored at
NO_TREE_PAGE ==
  [page_type |-> "INVALID_INDEX_PAGE", array |-> <<>>, max_size |-> 0,
   parent_page_id |-> INVALID_PAGE_ID, next_page_id |-> INVALID_PAGE_ID]

\* BPlusTreeLeafPage::Init followed by SetNextPageId(INVALID_PAGE_ID)
LeafInit(parent_id, max_size) ==
  [page_type |-> "LEAF_PAGE", array |-> <<>>, max_size |-> max_size,
   parent_page_id |-> parent_id, next_page_id |-> INVALID_PAGE_ID]

\* BPlusTreeInternalPage::Init: size 1, the entry at index 0 is zeroed memory
InternalInit(parent_id, max_size) ==
  [page_type |-> "INTERNAL_PAGE", array |-> <<[key |-> 0, value |-> 0]>>,
   max_size |-> max_size, parent_page_id |-> parent_id,
   next_page_id |-> INVALID_PAGE_ID]

\* array_[index] of a page, index counted from 0 as in the source
GetSize(p) == Len(p.array)
KeyAt(p, index) == p.array[index + 1].key
ValueAt(p, index) == p.array[index + 1].value
IsLeafPage(p) == p.page_type = "LEAF_PAGE"
IsRootPage(p) == p.parent_page_id = INVALID_PAGE_ID

\* min_size: half the capacity, rounded up (leaf), half of capacity plus one,
\* rounded up (internal)
GetMinSize(p) ==
  IF IsLeafPage(p) THEN (p.max_size + 1) \div 2 ELSE (p.max_size + 2) \div 2

\* BPlusTreeInternalPage::NeedSplit, NeedMerge
NeedSplit(p) == GetSize(p) >= p.max_size
NeedMerge(p) == GetSize(p) < GetMinSize(p)

\* BPlusTreeLeafPage::NeedSplit, NeedMerge
LeafNeedSplit(p) == GetSize(p) = p.max_size
LeafNeedMerge(p) == GetSize(p) < GetMinSize(p)

\* BPlusTreePage::IsSafe(write_type)
IsSafe(p, write_type) ==
  IF write_type = "INSERT" THEN GetSize(p) + 1 < p.max_size
  ELSE GetSize(p) - 1 >= GetMinSize(p)

\* BPlusTreeInternalPage::UpperBound: the binary search between l and r
RECURSIVE UpperBoundLoop(_, _, _, _)
UpperBoundLoop(p, key, l, r) ==
  IF l + 1 < r
  THEN LET m == (l + r) \div 2
       IN IF KeyAt(p, m) > key THEN UpperBoundLoop(p, key, l, m)
          ELSE UpperBoundLoop(p, key, m, r)
  ELSE r

UpperBound(p, key) == UpperBoundLoop(p, key, 0, GetSize(p))

\* BPlusTreeLeafPage::LowerBound: the first index whose key is not below key
LowerBound(p, key) ==
  LET I == {i \in 0..(GetSize(p) - 1) : KeyAt(p, i) >= key}
  IN IF I = {} THEN GetSize(p) ELSE Min(I)

\* BPlusTreeInternalPage::InsertKV
InsertKV(p, key, value) ==
  [p EXCEPT !.array =
     InsertAt(p.array, UpperBound(p, key) + 1, [key |-> key, value |-> value])]

\* SetKeyAt, SetValueAt on array_[index]
SetKeyAt(p, index, key) == [p EXCEPT !.array[index + 1].key = key]
SetValueAt(p, index, value) == [p EXCEPT !.array[index + 1].value = value]

\* the pin counts of the buffer pool: a page without an entry is not pinned
NoPins == <<>>

\* a tree as the operators below pass it on: root_page_id_, the pages, the
\* next page id, the ids handed to DeletePage, whether an assert has failed,
\* the return value of the last helper, the siblings LeafMerge and
\* InternalMerge have fetched for a borrow or a merge, the pin count of
\* every pinned page and the pages DeletePage has taken out of the pool
TreeOf(root, pgs, next, deleted) ==
  [root |-> root, pages |-> pgs, next |-> next, deleted |-> deleted,
   abort |-> FALSE, status |-> FALSE, siblings |-> {},
   pins |-> NoPins, freed |-> {}]

PinCount(T, id) == IF id \in DOMAIN T.pins THEN T.pins[id] ELSE 0

\* buffer_pool_manager_->FetchPage(id): one more pin
WithPin(T, id) == [T EXCEPT !.pins = (id :> PinCount(T, id) + 1) @@ @]

\* buffer_pool_manager_->UnpinPage(id, is_dirty): one pin less, and nothing
\* when the page is not pinned
WithoutPin(T, id) ==
  IF PinCount(T, id) > 1 THEN [T EXCEPT !.pins = (id :> PinCount(T, id) - 1) @@ @]
  ELSE [T EXCEPT !.pins = [i \in DOMAIN @ \ {id} |-> @[i]]]

\* buffer_pool_manager_->DeletePage(id): a pinned page stays in the pool
DeletedFromPool(T, id) ==
  IF PinCount(T, id) = 0 THEN [T EXCEPT !.freed = @ \cup {id}] ELSE T

\* FetchPage and UnpinPage of a sibling that may not exist
PinIfAny(T, id) == IF id = INVALID_PAGE_ID THEN T ELSE WithPin(T, id)
UnpinIfAny(T, id) == IF id = INVALID_PAGE_ID THEN T ELSE WithoutPin(T, id)

RECURSIVE PinPages(_, _)
PinPages(T, ids) ==
  IF ids = <<>> THEN T ELSE PinPages(WithPin(T, Head(ids)), Tail(ids))

RECURSIVE UnpinPages(_, _)
UnpinPages(T, ids) ==
  IF ids = <<>> THEN T ELSE UnpinPages(WithoutPin(T, Head(ids)), Tail(ids))

\* buffer_pool_manager_->NewPage(&id) followed by the page's Init: the new
\* page is pinned
WithNewPage(T, p) ==
  [T EXCEPT !.pages = (T.next :> p) @@ T.pages, !.next = @ + 1,
            !.pins = (T.next :> 1) @@ @]

Returning(T, status) == [T EXCEPT !.status = status]
Aborted(T) == [T EXCEPT !.abort = TRUE, !.status = TRUE]

\* the first of two attempts that succeeds
Try(A, B) == IF A.status THEN A ELSE B

\* FindLeafPageForRead / FindLeafPageForWrite without the latches: the leaf a
\* key belongs to, from page id
RECURSIVE FindLeafPage(_, _, _)
FindLeafPage(T, id, key) ==
  LET node == T.pages[id]
  IN IF IsLeafPage(node) THEN id
     ELSE FindLeafPage(T, ValueAt(node, UpperBound(node, key) - 1), key)

\* BPlusTree::UpdateParentPageId
UpdateParentPageId(T, child_page_id, parent_page_id) ==
  [T EXCEPT !.pages[child_page_id].parent_page_id = parent_page_id]

\* UpdateParentPageId for every entry of a sequence of (key, child) pairs
RECURSIVE UpdateParentPageIds(_, _, _)
UpdateParentPageIds(T, entries, parent_page_id) ==
  IF entries = <<>> THEN T
  ELSE UpdateParentPageIds(UpdateParentPageId(T, Head(entries).value, parent_page_id),
                           Tail(entries), parent_page_id)

\* BPlusTree::GetParent(tree_page, true): the parent's id, and the tree once
\* a root without a parent has got a new root above it
ParentId(T, id) ==
  IF IsRootPage(T.pages[id]) THEN T.next ELSE T.pages[id].parent_page_id

\* the new root is pinned by NewPage and by the FetchPage that follows it,
\* a parent that exists by FetchPage
GetParent(T, id) ==
  IF IsRootPage(T.pages[id])
  THEN [WithPin(
          WithNewPage(T, SetValueAt(InternalInit(INVALID_PAGE_ID, internal_max_size), 0, id)),
          T.next)
          EXCEPT !.root = T.next]
  ELSE WithPin(T, T.pages[id].parent_page_id)

RECURSIVE InternalInsert(_, _, _, _)
RECURSIVE InternalSplit(_, _, _, _)

\* the parent level part of InternalSplit, T holding the two halves
SplitParentPart(T, parent_id, internal_id, new_page_id) ==
  WithoutPin(
    InternalInsert(
      WithoutPin(
        [T EXCEPT !.pages[internal_id].parent_page_id = parent_id,
                  !.pages[new_page_id].parent_page_id = parent_id],
        new_page_id),
      parent_id, KeyAt(T.pages[new_page_id], 0), new_page_id),
    parent_id)

\* the statement of InternalSplit that adds key to one of the two halves
SplitInsertKV(T, internal_id, new_page_id, key, value) ==
  LET page_to_insert ==
        IF key < KeyAt(T.pages[new_page_id], 0) THEN internal_id ELSE new_page_id
  IN UpdateParentPageId(
       [T EXCEPT !.pages[page_to_insert] = InsertKV(@, key, value)],
       value, page_to_insert)

\* where InternalSplit cuts the page
SplitMiddle(internal, key) ==
  LET middle == internal.max_size \div 2
  IN IF tree_version = "latched_pages" /\ UpperBound(internal, key) >= middle
     THEN middle + 1 ELSE middle

\* BPlusTree::InternalSplit
InternalSplit(T, internal_id, key, value) ==
  LET internal == T.pages[internal_id]
      new_internal_page_id == T.next
      middle == SplitMiddle(internal, key)
      moved == SubSeq(internal.array, middle + 1, internal.max_size)
      new_internal ==
        [InternalInit(internal.parent_page_id, internal_max_size)
           EXCEPT !.array = moved]
      halves ==
        UpdateParentPageIds(
          [WithNewPage(T, new_internal)
             EXCEPT !.pages[internal_id].array = SubSeq(internal.array, 1, middle)],
          moved, new_internal_page_id)
      inserted == SplitInsertKV(halves, internal_id, new_internal_page_id, key, value)
  IN SplitParentPart(GetParent(inserted, internal_id), ParentId(inserted, internal_id),
                     internal_id, new_internal_page_id)

\* BPlusTree::InternalInsert
InternalInsert(T, internal_id, key, value) ==
  IF NeedSplit(T.pages[internal_id]) THEN InternalSplit(T, internal_id, key, value)
  ELSE [T EXCEPT !.pages[internal_id] = InsertKV(@, key, value)]

\* the part of LeafSplit from GetParent on, T holding the two leaves
LeafSplitParentPart(T, parent_id, leaf_id, new_leaf_page_id) ==
  WithoutPin(
    InternalInsert(
      WithoutPin(
        [T EXCEPT !.pages[leaf_id].parent_page_id = parent_id,
                  !.pages[new_leaf_page_id].parent_page_id = parent_id],
        new_leaf_page_id),
      parent_id, KeyAt(T.pages[new_leaf_page_id], 0), new_leaf_page_id),
    parent_id)

\* BPlusTree::LeafSplit
LeafSplit(T, leaf_id) ==
  LET leaf == T.pages[leaf_id]
      new_leaf_page_id == T.next
      middle == leaf.max_size \div 2
      new_leaf ==
        [LeafInit(leaf.parent_page_id, leaf_max_size)
           EXCEPT !.array = SubSeq(leaf.array, middle + 1, leaf.max_size),
                  !.next_page_id = leaf.next_page_id]
      halves ==
        [WithNewPage(T, new_leaf)
           EXCEPT !.pages[leaf_id].array = SubSeq(leaf.array, 1, middle),
                  !.pages[leaf_id].next_page_id = new_leaf_page_id]
  IN LeafSplitParentPart(GetParent(halves, leaf_id), ParentId(halves, leaf_id),
                         leaf_id, new_leaf_page_id)

\* LeafInsert once the key is in the leaf
SplitIfNeeded(T, leaf_id) ==
  IF LeafNeedSplit(T.pages[leaf_id]) THEN LeafSplit(T, leaf_id) ELSE T

\* LeafInsert without its last statement: the leaf is never split
LeafInsert_without_split(T, leaf_id, key, value) ==
  LET leaf == T.pages[leaf_id]
      index == LowerBound(leaf, key)
  IN IF index < GetSize(leaf) /\ KeyAt(leaf, index) = key
     THEN Returning(T, FALSE)
     ELSE Returning(
            [T EXCEPT !.pages[leaf_id].array =
               InsertAt(leaf.array, index + 1, [key |-> key, value |-> value])],
            TRUE)

\* BPlusTree::LeafInsert
LeafInsert(T, leaf_id, key, value) ==
  LET leaf == T.pages[leaf_id]
      index == LowerBound(leaf, key)
  IN IF index < GetSize(leaf) /\ KeyAt(leaf, index) = key
     THEN Returning(T, FALSE)
     ELSE Returning(
            SplitIfNeeded(
              [T EXCEPT !.pages[leaf_id].array =
                 InsertAt(leaf.array, index + 1, [key |-> key, value |-> value])],
              leaf_id),
            TRUE)

\* the new root leaf once Insert has initialised it: the "page_set" source
\* unpins it, the "latched_pages" source does not
RootLeafUnpinned(T, id) == IF tree_version = "page_set" THEN WithoutPin(T, id) ELSE T

\* the first statements of BPlusTree::Insert: an empty tree gets a root leaf
WithRoot(T) ==
  IF T.root = INVALID_PAGE_ID
  THEN [RootLeafUnpinned(WithNewPage(T, LeafInit(INVALID_PAGE_ID, leaf_max_size)), T.next)
          EXCEPT !.root = T.next]
  ELSE T

\* FindLeafPageForWrite without the latches: the pages the writer holds
\* pinned (and latched) when it reaches the leaf.  A child that is safe
\* lets go of every page before it.
RECURSIVE LatchedPages(_, _, _, _, _)
LatchedPages(T, id, key, write_type, so_far) ==
  LET node == T.pages[id]
      now == IF so_far # <<>> /\ IsSafe(node, write_type) THEN <<id>>
             ELSE Append(so_far, id)
  IN IF IsLeafPage(node) THEN now
     ELSE LatchedPages(T, ValueAt(node, UpperBound(node, key) - 1), key,
                       write_type, now)

\* the root a split has put above the old one is pushed to the front of
\* latched_pages
NewRootPages(T, before) ==
  IF T.root # before.root /\ T.root >= before.next THEN <<T.root>> ELSE <<>>

\* the last loop of Insert and Remove: every page of latched_pages is
\* unpinned
AfterLastLoop(T, before, latched_pages) ==
  UnpinPages(T, NewRootPages(T, before) \o latched_pages)

\* Insert from FindLeafPageForWrite on
InsertOn(T, latched_pages, key, value) ==
  AfterLastLoop(LeafInsert(PinPages(T, latched_pages),
                      latched_pages[Len(latched_pages)], key, value),
           T, latched_pages)

InsertInto(T, key, value) ==
  InsertOn(T, LatchedPages(T, T.root, key, "INSERT", <<>>), key, value)

\* BPlusTree::Insert
TreeInsert(T, key, value) == InsertInto(WithRoot(T), key, value)

\* a page is merged away: the "page_set" source hands it to DeletePage when
\* Remove ends, the "latched_pages" source leaves it in the buffer pool
AddIntoDeletedPageSet(T, id) ==
  IF tree_version = "page_set" THEN [T EXCEPT !.deleted = @ \cup {id}] ELSE T

\* the entry at right_index leaves the parent
WithoutEntry(p, right_index) == [p EXCEPT !.array = RemoveAt(@, right_index + 1)]

RECURSIVE InternalMerge(_, _, _)

\* InternalMerge when the page still needs it
MergeIfNeeded(T, parent_id, min_key) ==
  IF NeedMerge(T.pages[parent_id]) THEN InternalMerge(T, parent_id, min_key) ELSE T

\* BPlusTree::BorrowLeftLeaf
BorrowLeftLeaf(T, leaf_id, left_id, parent_id, leaf_index) ==
  IF left_id = INVALID_PAGE_ID
     \/ GetSize(T.pages[left_id]) <= GetMinSize(T.pages[left_id])
  THEN Returning(T, FALSE)
  ELSE LET left == T.pages[left_id]
           kv == left.array[GetSize(left)]
       IN Returning(
            [T EXCEPT !.pages[leaf_id].array = <<kv>> \o @,
                      !.pages[left_id].array = SubSeq(@, 1, GetSize(left) - 1),
                      !.pages[parent_id] = SetKeyAt(@, leaf_index, kv.key)],
            TRUE)

\* BPlusTree::BorrowRightLeaf
BorrowRightLeaf(T, leaf_id, right_id, parent_id, leaf_index) ==
  IF right_id = INVALID_PAGE_ID
     \/ GetSize(T.pages[right_id]) <= GetMinSize(T.pages[right_id])
  THEN Returning(T, FALSE)
  ELSE LET right == T.pages[right_id]
       IN Returning(
            [T EXCEPT !.pages[leaf_id].array = Append(@, right.array[1]),
                      !.pages[right_id].array = Tail(@),
                      !.pages[parent_id] = SetKeyAt(@, leaf_index + 1, KeyAt(right, 1))],
            TRUE)

\* BPlusTree::LeafMergeRightToLeft
LeafMergeRightToLeft(T, left_id, right_id, parent_id, right_index) ==
  IF left_id = INVALID_PAGE_ID \/ right_id = INVALID_PAGE_ID
  THEN Returning(T, FALSE)
  ELSE LET left == T.pages[left_id]
           right == T.pages[right_id]
           parent == T.pages[parent_id]
       IN IF ~(GetSize(left) + GetSize(right) < leaf_max_size) \/ ~(GetSize(parent) > 1)
          THEN Aborted(T)
          ELSE Returning(
                 MergeIfNeeded(
                   AddIntoDeletedPageSet(
                     [T EXCEPT !.pages[left_id].array = @ \o right.array,
                               !.pages[left_id].next_page_id = right.next_page_id,
                               !.pages[parent_id] = WithoutEntry(@, right_index)],
                     right_id),
                   parent_id, KeyAt(parent, 1)),
                 TRUE)

\* the attempts of LeafMerge that follow the borrow from the left sibling
LeafMergeAfterLeft(T, leaf_id, parent_id, index, left_id, right_id) ==
  Try(BorrowRightLeaf(T, leaf_id, right_id, parent_id, index),
  Try(LeafMergeRightToLeft(T, left_id, leaf_id, parent_id, index),
      LeafMergeRightToLeft(T, leaf_id, right_id, parent_id, index + 1)))

\* the sibling at index of the parent, or none
SiblingAt(parent, index) ==
  IF index >= 0 /\ index < GetSize(parent) THEN ValueAt(parent, index)
  ELSE INVALID_PAGE_ID

\* the sibling id, if there is one, is the object of an attempt (the
\* "page_set" source latches it around the attempt)
WithSibling(T, id) ==
  IF id = INVALID_PAGE_ID THEN T ELSE [T EXCEPT !.siblings = @ \cup {id}]

\* the four attempts of LeafMerge, in the source's order: the left sibling
\* is tried first, the right one once the borrow from the left has failed
LeafMergeAt(T, leaf_id, parent_id, index, left_id, right_id) ==
  Try(BorrowLeftLeaf(WithSibling(T, left_id), leaf_id, left_id, parent_id, index),
      LeafMergeAfterLeft(WithSibling(WithSibling(T, left_id), right_id),
                         leaf_id, parent_id, index, left_id, right_id))

\* LeafMerge with the leaf's index in its parent found
\* GetParent and the FetchPage of the siblings at the start of LeafMerge and
\* InternalMerge, the UnpinPage of the three at their end
MergePinned(T, parent_id, left_id, right_id) ==
  PinIfAny(PinIfAny(WithPin(T, parent_id), left_id), right_id)

MergeUnpinned(T, parent_id, left_id, right_id) ==
  WithoutPin(UnpinIfAny(UnpinIfAny(T, left_id), right_id), parent_id)

LeafMergeWith(T, leaf_id, parent_id, index, left_id, right_id) ==
  MergeUnpinned(
    LeafMergeAt(MergePinned(T, parent_id, left_id, right_id),
                leaf_id, parent_id, index, left_id, right_id),
    parent_id, left_id, right_id)

LeafMergeIn(T, leaf_id, parent_id, index) ==
  LeafMergeWith(T, leaf_id, parent_id, index,
                SiblingAt(T.pages[parent_id], index - 1),
                SiblingAt(T.pages[parent_id], index + 1))

\* BPlusTree::LeafMerge
LeafMerge(T, leaf_id, min_key) ==
  IF IsRootPage(T.pages[leaf_id]) THEN T
  ELSE LeafMergeIn(T, leaf_id, T.pages[leaf_id].parent_page_id,
                   UpperBound(T.pages[T.pages[leaf_id].parent_page_id], min_key) - 1)

\* BPlusTree::BorrowLeftInternal
BorrowLeftInternal(T, internal_id, left_id, parent_id, internal_index) ==
  IF left_id = INVALID_PAGE_ID
     \/ GetSize(T.pages[left_id]) <= GetMinSize(T.pages[left_id])
  THEN Returning(T, FALSE)
  ELSE LET left == T.pages[left_id]
           internal == T.pages[internal_id]
           parent == T.pages[parent_id]
           last == left.array[GetSize(left)]
       IN Returning(
            UpdateParentPageId(
              [T EXCEPT !.pages[internal_id].array =
                          <<[key |-> KeyAt(internal, 0), value |-> last.value],
                            [key |-> KeyAt(parent, internal_index),
                             value |-> ValueAt(internal, 0)]>> \o Tail(@),
                        !.pages[parent_id] = SetKeyAt(@, internal_index, last.key),
                        !.pages[left_id].array = SubSeq(@, 1, GetSize(left) - 1)],
              last.value, internal_id),
            TRUE)

\* the index of the parent key BorrowRightInternal rewrites
BorrowRightKeyIndex(internal_index) == internal_index

\* BPlusTree::BorrowRightInternal
BorrowRightInternal(T, internal_id, right_id, parent_id, internal_index) ==
  IF right_id = INVALID_PAGE_ID
     \/ GetSize(T.pages[right_id]) <= GetMinSize(T.pages[right_id])
  THEN Returning(T, FALSE)
  ELSE LET right == T.pages[right_id]
           parent == T.pages[parent_id]
       IN Returning(
            UpdateParentPageId(
              [T EXCEPT !.pages[internal_id].array =
                          Append(@, [key |-> KeyAt(parent, internal_index + 1),
                                     value |-> ValueAt(right, 0)]),
                        !.pages[parent_id] =
                          SetKeyAt(@, BorrowRightKeyIndex(internal_index), KeyAt(right, 1)),
                        !.pages[right_id].array = Tail(@)],
              ValueAt(right, 0), internal_id),
            TRUE)

\* BPlusTree::InternalMergeRightToLeft
InternalMergeRightToLeft(T, left_id, right_id, parent_id, right_index) ==
  IF left_id = INVALID_PAGE_ID \/ right_id = INVALID_PAGE_ID
  THEN Returning(T, FALSE)
  ELSE LET left == T.pages[left_id]
           right == T.pages[right_id]
           parent == T.pages[parent_id]
           joined ==
             left.array
               \o <<[key |-> KeyAt(parent, right_index), value |-> ValueAt(right, 0)]>>
               \o Tail(right.array)
       IN IF ~(GetSize(left) + GetSize(right) <= internal_max_size)
             \/ ~(GetSize(parent) > 1)
          THEN Aborted(T)
          ELSE Returning(
                 MergeIfNeeded(
                   AddIntoDeletedPageSet(
                     UpdateParentPageIds(
                       [T EXCEPT !.pages[left_id].array = joined,
                                 !.pages[parent_id] = WithoutEntry(@, right_index)],
                       right.array, left_id),
                     right_id),
                   parent_id, KeyAt(parent, 1)),
                 TRUE)

\* the attempts of InternalMerge that follow the borrow from the left sibling
InternalMergeAfterLeft(T, internal_id, parent_id, index, left_id, right_id) ==
  Try(BorrowRightInternal(T, internal_id, right_id, parent_id, index),
  Try(InternalMergeRightToLeft(T, left_id, internal_id, parent_id, index),
      InternalMergeRightToLeft(T, internal_id, right_id, parent_id, index + 1)))

\* the four attempts of InternalMerge, in the source's order
InternalMergeAt(T, internal_id, parent_id, index, left_id, right_id) ==
  Try(BorrowLeftInternal(WithSibling(T, left_id), internal_id, left_id,
                         parent_id, index),
      InternalMergeAfterLeft(WithSibling(WithSibling(T, left_id), right_id),
                             internal_id, parent_id, index, left_id, right_id))

InternalMergeWith(T, internal_id, parent_id, index, left_id, right_id) ==
  MergeUnpinned(
    InternalMergeAt(MergePinned(T, parent_id, left_id, right_id),
                    internal_id, parent_id, index, left_id, right_id),
    parent_id, left_id, right_id)

InternalMergeIn(T, internal_id, parent_id, index) ==
  InternalMergeWith(T, internal_id, parent_id, index,
                    SiblingAt(T.pages[parent_id], index - 1),
                    SiblingAt(T.pages[parent_id], index + 1))

\* the former root once root_page_id_ names its child: the "latched_pages"
\* source unpins it and calls DeletePage at once, the "page_set" source
\* leaves it to the end of Remove
FormerRoot(T, internal_id) ==
  IF tree_version = "latched_pages"
  THEN DeletedFromPool(WithoutPin(T, internal_id), internal_id) ELSE T

\* InternalMerge at the root: a root with a single child gives way to it
RootMerge(T, internal_id) ==
  IF GetSize(T.pages[internal_id]) = 1
  THEN FormerRoot(
         [UpdateParentPageId(T, ValueAt(T.pages[internal_id], 0), INVALID_PAGE_ID)
            EXCEPT !.root = ValueAt(T.pages[internal_id], 0),
                   !.deleted = @ \cup {internal_id}],
         internal_id)
  ELSE T

\* BPlusTree::InternalMerge
InternalMerge(T, internal_id, min_key) ==
  IF IsRootPage(T.pages[internal_id]) THEN RootMerge(T, internal_id)
  ELSE InternalMergeIn(T, internal_id, T.pages[internal_id].parent_page_id,
         UpperBound(T.pages[T.pages[internal_id].parent_page_id], min_key) - 1)

\* Remove once the key has left the leaf
LeafMergeIfNeeded(T, leaf_id, min_key) ==
  IF LeafNeedMerge(T.pages[leaf_id]) THEN LeafMerge(T, leaf_id, min_key) ELSE T

\* BPlusTree::Remove on the leaf the key belongs to (LeafRemove)
LeafRemove(T, leaf_id, key) ==
  LET leaf == T.pages[leaf_id]
      index == LowerBound(leaf, key)
  IN IF index >= GetSize(leaf) \/ KeyAt(leaf, index) # key
     THEN Returning(T, FALSE)
     ELSE Returning(
            LeafMergeIfNeeded(
              [T EXCEPT !.pages[leaf_id].array = RemoveAt(@, index + 1)],
              leaf_id, KeyAt(leaf, 0)),
            TRUE)

\* the end of Remove in the "page_set" source: DeletePage for every page the
\* call has put into the deleted page set
DeletedPageSet(T, before) ==
  IF tree_version = "page_set"
  THEN [T EXCEPT !.freed =
          @ \cup {id \in T.deleted \ before.deleted : PinCount(T, id) = 0}]
  ELSE T

\* Remove from FindLeafPageForWrite on
RemoveOn(T, latched_pages, key) ==
  DeletedPageSet(
    AfterLastLoop(LeafRemove(PinPages(T, latched_pages),
                        latched_pages[Len(latched_pages)], key),
             T, latched_pages),
    T)

\* BPlusTree::Remove
TreeRemove(T, key) ==
  IF T.root = INVALID_PAGE_ID THEN Returning(T, FALSE)
  ELSE RemoveOn(T, LatchedPages(T, T.root, key, "DELETE", <<>>), key)

\* BPlusTree::GetValue: whether the key is found
TreeGetValue(T, key) ==
  IF T.root = INVALID_PAGE_ID THEN FALSE
  ELSE LET leaf == T.pages[FindLeafPage(T, T.root, key)]
           index == LowerBound(leaf, key)
       IN index < GetSize(leaf) /\ KeyAt(leaf, index) = key

\* the tree the variables hold
CurTree ==
  [TreeOf(root_page_id, tree_pages, tree_next_page_id, deleted_pages)
     EXCEPT !.pins = tree_result.pins, !.freed = tree_result.freed]

\* the size of the leaf a key belongs to (0 while the tree has no page)
TargetLeafSize(T, key) ==
  IF T.root = INVALID_PAGE_ID THEN 0
  ELSE GetSize(T.pages[FindLeafPage(T, T.root, key)])

\* the keys a caller has inserted and not removed since
PresentAfter(op, key) ==
  IF op = "Insert" THEN tree_result.present \cup {key}
  ELSE tree_result.present \ {key}

\* where the calls made so far stand: "insert" while every call was an Insert
\* of a new key, "remove" once Removes of present keys have followed them,
\* "mixed" for every other sequence of calls
PhaseAfter(op, key) ==
  IF op = "Insert"
  THEN IF tree_result.phase = "insert" /\ key \notin tree_result.present
       THEN "insert" ELSE "mixed"
  ELSE IF tree_result.phase \in {"insert", "remove"} /\ key \in tree_result.present
       THEN "remove" ELSE "mixed"

\* a call has run to its end and left the tree T
TreeDone(T, op, key) ==
  /\ T.next <= MaxTreePages + 1
  /\ root_page_id' = T.root
  /\ tree_pages' = T.pages
  /\ tree_next_page_id' = T.next
  /\ deleted_pages' = T.deleted
  /\ tree_result' = [op |-> op, key |-> key, ans |-> T.status, abort |-> T.abort,
                     present |-> PresentAfter(op, key),
                     phase |-> PhaseAfter(op, key),
                     leaf_size |-> TargetLeafSize(CurTree, key),
                     pins |-> T.pins, freed |-> T.freed]
  /\ tree_calls' = tree_calls + 1
  /\ UNCHANGED <<tree_version, leaf_max_size, internal_max_size, tree_latch,
                 page_latch, walk>>
  /\ UNCHANGED outside_tree

\* a thread calls Insert(key, value) and the call runs alone
Tree_Insert(key) ==
  /\ tree_calls < MaxTreeCalls
  /\ ~tree_result.abort
  /\ TreeDone(TreeInsert(CurTree, key, key), "Insert", key)

\* a thread calls Remove(key) and the call runs alone
Tree_Remove(key) ==
  /\ tree_calls < MaxTreeCalls
  /\ ~tree_result.abort
  /\ TreeDone(TreeRemove(CurTree, key), "Remove", key)

\* a tree of one of the sources, constructed with one of the size pairs
TreeInit(versions, sizes) ==
  /\ tree_version \in versions
  /\ \E s \in sizes : leaf_max_size = s.leaf /\ internal_max_size = s.internal
  /\ root_page_id = INVALID_PAGE_ID
  /\ tree_pages = <<>>
  /\ tree_next_page_id = 1
  /\ deleted_pages = {}
  /\ tree_result = [op |-> "none", key |-> 0, ans |-> FALSE, abort |-> FALSE,
                    present |-> {}, phase |-> "insert", leaf_size |-> 0,
                    pins |-> NoPins, freed |-> {}]
  /\ tree_calls = 0
  /\ tree_latch = <<>>
  /\ page_latch = <<>>
  /\ walk = <<>>
  /\ LockUnused
  /\ PoolUnused
  /\ TableUnused

InitTree == TreeInit(TreeVersions, TreeSizes)

NextTree ==
  \/ \E key \in TreeKeys : Tree_Insert(key)
  \/ \E key \in TreeKeys : Tree_Remove(key)

SpecTree == InitTree /\ [][NextTree]_vars

\* ------------------------------------------------- claims on the B+ tree
\* the pages below page id, page id included
RECURSIVE Subtree(_, _)
Subtree(pgs, id) ==
  IF IsLeafPage(pgs[id]) THEN {id}
  ELSE {id} \cup UNION {Subtree(pgs, pgs[id].array[i].value) : i \in 1..GetSize(pgs[id])}

\* the pages of the tree: those the root leads to
LivePages == IF root_page_id = INVALID_PAGE_ID THEN {} ELSE Subtree(tree_pages, root_page_id)
LiveLeaves == {id \in LivePages : IsLeafPage(tree_pages[id])}

\* the leaf Begin() starts at
RECURSIVE LeftmostLeaf(_, _)
LeftmostLeaf(pgs, id) ==
  IF IsLeafPage(pgs[id]) THEN id ELSE LeftmostLeaf(pgs, ValueAt(pgs[id], 0))

\* the keys met by following next_page_id from leaf id, over at most n leaves
RECURSIVE ChainKeys(_, _, _)
ChainKeys(pgs, id, n) ==
  IF id = INVALID_PAGE_ID \/ n = 0 \/ id \notin DOMAIN pgs THEN <<>>
  ELSE [i \in 1..GetSize(pgs[id]) |-> pgs[id].array[i].key]
         \o ChainKeys(pgs, pgs[id].next_page_id, n - 1)

StrictlyAscending(s) == \A i \in 1..(Len(s) - 1) : s[i] < s[i + 1]

LeafKeys(p) == [i \in 1..GetSize(p) |-> p.array[i].key]

\* the keys the leaves of the tree hold
StoredKeys == UNION {{tree_pages[id].array[i].key : i \in 1..GetSize(tree_pages[id])} : id \in LiveLeaves}

\* the scan from the leftmost leaf
Scan ==
  IF root_page_id = INVALID_PAGE_ID THEN <<>>
  ELSE ChainKeys(tree_pages, LeftmostLeaf(tree_pages, root_page_id), MaxTreePages)

NextLeafInOrder(l) ==
  LET next == tree_pages[l].next_page_id
  IN \/ next = INVALID_PAGE_ID
     \/ /\ next \in LiveLeaves
        /\ GetSize(tree_pages[l]) > 0 /\ GetSize(tree_pages[next]) > 0
             => KeyAt(tree_pages[next], 0) > KeyAt(tree_pages[l], GetSize(tree_pages[l]) - 1)

\* C22: after every completed Insert or Remove every leaf's keys ascend
\* strictly, every next_page_id is INVALID_PAGE_ID or names a leaf of the tree
\* with greater keys, and the scan from the leftmost leaf meets every key of
\* the tree once, in ascending order
C22_LeafChain ==
  ~tree_result.abort =>
    /\ \A l \in LiveLeaves :
         StrictlyAscending(LeafKeys(tree_pages[l])) /\ NextLeafInOrder(l)
    /\ StrictlyAscending(Scan)
    /\ {Scan[i] : i \in 1..Len(Scan)} = StoredKeys


\* min_size <= size <= max_size
SizeInBounds(p) == GetMinSize(p) <= GetSize(p) /\ GetSize(p) <= p.max_size

\* C23: after every completed Insert or Remove every page of the tree but the
\* root holds at least min_size and at most max_size entries
C23_SizeBounds ==
  ~tree_result.abort =>
    \A id \in LivePages : id # root_page_id => SizeInBounds(tree_pages[id])


\* C24: while distinct keys are inserted and then removed, GetValue finds
\* exactly the keys present, and once the last of them is removed the tree is
\* empty: root_page_id_ is INVALID_PAGE_ID
C24_InsertThenRemoveAll ==
  (~tree_result.abort /\ tree_result.phase \in {"insert", "remove"}) =>
    /\ (tree_result.phase = "remove" /\ tree_result.present = {})
         => root_page_id = INVALID_PAGE_ID
    /\ \A key \in TreeKeys :
         TreeGetValue(CurTree, key) <=> key \in tree_result.present

\* the step is a completed Insert of a key GetValue does not find, into a
\* tree that has a leaf for it
InsertsNewKey ==
  /\ tree_calls' = tree_calls + 1
  /\ tree_result'.op = "Insert"
  /\ ~tree_result'.abort
  /\ root_page_id # INVALID_PAGE_ID
  /\ ~TreeGetValue(CurTree, tree_result'.key)

\* the leaf the step's key belongs to
TargetLeaf == FindLeafPage(CurTree, root_page_id, tree_result'.key)

\* the step allocates no page and changes no page but the leaf
NoSplit ==
  /\ tree_next_page_id' = tree_next_page_id
  /\ root_page_id' = root_page_id
  /\ \A id \in DOMAIN tree_pages :
       id # TargetLeaf => tree_pages'[id] = tree_pages[id]
  /\ GetSize(tree_pages'[TargetLeaf]) = GetSize(tree_pages[TargetLeaf]) + 1

\* the step moves the upper half of the leaf to a newly allocated leaf that
\* follows it
Split ==
  /\ tree_next_page_id' > tree_next_page_id
  /\ tree_pages'[TargetLeaf].next_page_id = tree_next_page_id
  /\ IsLeafPage(tree_pages'[tree_next_page_id])
  /\ GetSize(tree_pages'[TargetLeaf]) = leaf_max_size \div 2

\* C25: an Insert of a new key into a leaf of max_size - 1 entries succeeds
\* without a split, and an Insert into a leaf of max_size entries splits it
C25_NoSplitAtMaxMinusOne ==
  [][InsertsNewKey =>
       /\ GetSize(tree_pages[TargetLeaf]) = leaf_max_size - 1
            => tree_result'.ans /\ NoSplit
       /\ GetSize(tree_pages[TargetLeaf]) = leaf_max_size => Split]_vars

\* C25, amended: an Insert of a new key succeeds; into a leaf of fewer than
\* max_size - 1 entries it splits nothing, into a leaf of max_size - 1 entries
\* it splits the leaf, and no leaf is left with max_size entries
C25_SplitAtMaxMinusOne ==
  [][InsertsNewKey =>
       /\ tree_result'.ans
       /\ GetSize(tree_pages[TargetLeaf]) < leaf_max_size
       /\ GetSize(tree_pages[TargetLeaf]) < leaf_max_size - 1 => NoSplit
       /\ GetSize(tree_pages[TargetLeaf]) = leaf_max_size - 1 => Split
       /\ GetSize(tree_pages'[TargetLeaf]) < leaf_max_size]_vars

\* an Insert into a leaf of max_size - 1 entries has succeeded and the tree
\* has more than one leaf
C25_SplitWitness ==
  /\ tree_result.op = "Insert"
  /\ tree_result.ans
  /\ tree_result.leaf_size = leaf_max_size - 1
  /\ Cardinality(LiveLeaves) > 1

\* ------------------------------------------- the B+ tree's latches (SpecCrab)
\* SpecCrab runs GetValue, Begin, End, Insert and Remove of several threads
\* one latch acquisition at a time: tree_latch_ and the latch of every page
\* are state, and so is each thread's position on its way from the root to
\* a leaf.  What a writer does between its last acquisition and its first
\* release (LeafInsert or LeafRemove with the splits and merges above it) is
\* one step.
NumCrabThreads == 2
NumCrabKeys == 6
MaxCrabCalls == 2
NumPrefilled == 6
MaxCrabPages == 16

CrabThreads == 1..NumCrabThreads
CrabKeys == 1..NumCrabKeys
CrabSizes == {[leaf |-> 2, internal |-> 3]}
ReadOps == {"GetValue", "Begin", "End"}
WriteOps == {"Insert", "Remove"}

\* a ReaderWriterLatch nobody holds
FreeLatch == [readers |-> {}, writer |-> 0]

\* RLock / RLatch and WLock / WLatch return once the latch is available
CanLatch(l, mode) ==
  IF mode = "R" THEN l.writer = 0 ELSE l.writer = 0 /\ l.readers = {}

Latched(l, t, mode) ==
  IF mode = "R" THEN [l EXCEPT !.readers = @ \cup {t}] ELSE [l EXCEPT !.writer = t]

\* RUnlock / RUnlatch, WUnlock / WUnlatch by thread t
Unlatched(l, t) ==
  [readers |-> l.readers \ {t}, writer |-> IF l.writer = t THEN 0 ELSE l.writer]

HoldsLatch(l, t) == t \in l.readers \/ l.writer = t

\* the pages thread t holds a latch on
HeldPages(t) == {id \in DOMAIN page_latch : HoldsLatch(page_latch[id], t)}

\* a thread in no call
IdleWalk ==
  [pc |-> "idle", op |-> "none", key |-> 0, node |-> INVALID_PAGE_ID,
   child |-> INVALID_PAGE_ID, root |-> INVALID_PAGE_ID, pessimistic |-> FALSE,
   latched_pages |-> <<>>, ans |-> FALSE, overlapped |-> FALSE]

WriteType(op) == IF op = "Insert" THEN "INSERT" ELSE "DELETE"

\* the latch a thread takes on page id: exclusive on the pessimistic path, and
\* on the leaf when FindLeafPageForRead is called with write_latch_leaf
LatchMode(t, id) ==
  IF walk[t].pessimistic THEN "W"
  ELSE IF walk[t].op \in WriteOps /\ IsLeafPage(tree_pages[id]) THEN "W" ELSE "R"

\* the child a descent goes to next
ChildOf(t) ==
  LET node == tree_pages[walk[t].node]
  IN CASE walk[t].op = "Begin" -> ValueAt(node, 0)
       [] walk[t].op = "End" -> ValueAt(node, GetSize(node) - 1)
       [] OTHER -> ValueAt(node, UpperBound(node, walk[t].key) - 1)

CrabFrame ==
  /\ UNCHANGED <<tree_version, leaf_max_size, internal_max_size>>
  /\ UNCHANGED outside_tree

TreeUntouched ==
  UNCHANGED <<root_page_id, tree_pages, tree_next_page_id, deleted_pages>>

\* a call returns
Returned(t, op, key, ans) ==
  /\ walk' = [walk EXCEPT ![t] = IdleWalk]
  /\ tree_result' = [op |-> op, key |-> key, ans |-> ans,
                     abort |-> tree_result.abort,
                     present |-> IF op \in WriteOps THEN PresentAfter(op, key)
                                 ELSE tree_result.present,
                     phase |-> "mixed", leaf_size |-> 0,
                     pins |-> tree_result.pins, freed |-> tree_result.freed]

\* another thread is inside an Insert or Remove of key
WriteInFlight(t, key) ==
  \E u \in CrabThreads \ {t} : walk[u].op \in WriteOps /\ walk[u].key = key

\* a thread calls GetValue, Begin, End, Insert or Remove (Begin and End take
\* no key: 0); GetValue and Remove return at once when IsEmpty().  A call
\* that runs beside an Insert or Remove of its own key is marked overlapped.
C_Call(t, op, key) ==
  /\ walk[t].pc = "idle"
  /\ ~tree_result.abort
  /\ tree_calls < MaxCrabCalls
  /\ op \in {"Begin", "End"} => root_page_id # INVALID_PAGE_ID /\ key = 0
  /\ op \notin {"Begin", "End"} => key \in CrabKeys
  /\ tree_calls' = tree_calls + 1
  /\ IF op \in {"GetValue", "Remove"} /\ root_page_id = INVALID_PAGE_ID
     THEN Returned(t, op, key, FALSE)
     ELSE /\ walk' = [u \in CrabThreads |->
                 IF u = t
                 THEN [IdleWalk EXCEPT !.op = op, !.key = key,
                         !.pc = IF op = "Insert" /\ root_page_id = INVALID_PAGE_ID
                                THEN "create_root" ELSE "read_root",
                         !.overlapped = WriteInFlight(t, key)]
                 ELSE IF op \in WriteOps /\ walk[u].key = key
                 THEN [walk[u] EXCEPT !.overlapped = TRUE] ELSE walk[u]]
          /\ UNCHANGED tree_result
  /\ TreeUntouched
  /\ UNCHANGED <<tree_latch, page_latch>>
  /\ CrabFrame

\* Insert on an empty tree: under tree_latch_.WLock() the tree gets its root leaf
C_CreateRoot(t) ==
  /\ walk[t].pc = "create_root"
  /\ CanLatch(tree_latch, "W")
  /\ tree_next_page_id <= MaxCrabPages
  /\ root_page_id' = WithRoot(CurTree).root
  /\ tree_pages' = WithRoot(CurTree).pages
  /\ tree_next_page_id' = WithRoot(CurTree).next
  /\ walk' = [walk EXCEPT ![t].pc = "read_root"]
  /\ UNCHANGED <<deleted_pages, tree_result, tree_calls, tree_latch, page_latch>>
  /\ CrabFrame

\* the thread locks tree_latch_ and reads root_page_id_: shared in GetRootPage
\* and in FindLeafPageForRead, exclusive in the FindLeafPageForWrite of the
\* "page_set" source
TreeLatchMode(t) ==
  IF walk[t].pessimistic /\ tree_version = "page_set" THEN "W" ELSE "R"

C_LockTree(t) ==
  /\ walk[t].pc = "read_root"
  /\ CanLatch(tree_latch, TreeLatchMode(t))
  /\ tree_latch' = Latched(tree_latch, t, TreeLatchMode(t))
  /\ walk' = [walk EXCEPT ![t].pc = "root_fetched", ![t].node = root_page_id,
                          ![t].root = root_page_id]
  /\ TreeUntouched
  /\ UNCHANGED <<tree_result, tree_calls, page_latch>>
  /\ CrabFrame

\* GetRootPage returns: tree_latch_.RUnlock() before the root page is latched
C_GetRootPageReturn(t) ==
  /\ walk[t].pc = "root_fetched"
  /\ tree_version = "latched_pages"
  /\ tree_latch' = Unlatched(tree_latch, t)
  /\ walk' = [walk EXCEPT ![t].pc = "latch_root"]
  /\ TreeUntouched
  /\ UNCHANGED <<tree_result, tree_calls, page_latch>>
  /\ CrabFrame

\* the thread latches the page it has fetched as the root; a writer on the
\* pessimistic path puts it into latched_pages
C_LatchRoot(t) ==
  /\ \/ walk[t].pc = "latch_root" /\ tree_version = "latched_pages"
     \/ walk[t].pc = "root_fetched" /\ tree_version = "page_set"
  /\ CanLatch(page_latch[walk[t].node], LatchMode(t, walk[t].node))
  /\ page_latch' = [page_latch EXCEPT ![walk[t].node] =
                      Latched(@, t, LatchMode(t, walk[t].node))]
  /\ walk' = [walk EXCEPT
       ![t].pc = IF tree_version = "page_set" /\ ~walk[t].pessimistic
                 THEN "unlock_tree" ELSE "descend",
       ![t].latched_pages = IF walk[t].pessimistic THEN <<walk[t].node>> ELSE <<>>]
  /\ TreeUntouched
  /\ UNCHANGED <<tree_result, tree_calls, tree_latch>>
  /\ CrabFrame

\* FindLeafPageForRead of the "page_set" source: tree_latch_.RUnlock() once the
\* root page is latched
C_UnlockTree(t) ==
  /\ walk[t].pc = "unlock_tree"
  /\ tree_latch' = Unlatched(tree_latch, t)
  /\ walk' = [walk EXCEPT ![t].pc = "descend"]
  /\ TreeUntouched
  /\ UNCHANGED <<tree_result, tree_calls, page_latch>>
  /\ CrabFrame

\* the latches after a writer has released every page of latched_pages
RECURSIVE ReleasedPages(_, _, _)
ReleasedPages(latches, t, ids) ==
  IF ids = <<>> THEN latches
  ELSE ReleasedPages([latches EXCEPT ![Head(ids)] = Unlatched(@, t)], t, Tail(ids))

\* the "page_set" source unlocks tree_latch_ when it releases a page that
\* IsRootPage()
ReleasesTreeLatch(ids) ==
  /\ tree_version = "page_set"
  /\ \E i \in 1..Len(ids) : IsRootPage(tree_pages[ids[i]])

\* a reader latches the child before it gives up the parent
C_LatchChild(t) ==
  /\ walk[t].pc = "descend"
  /\ ~walk[t].pessimistic
  /\ ~IsLeafPage(tree_pages[walk[t].node])
  /\ CanLatch(page_latch[ChildOf(t)], LatchMode(t, ChildOf(t)))
  /\ page_latch' = [page_latch EXCEPT ![ChildOf(t)] =
                      Latched(@, t, LatchMode(t, ChildOf(t)))]
  /\ walk' = [walk EXCEPT ![t].pc = "release_parent", ![t].child = ChildOf(t)]
  /\ TreeUntouched
  /\ UNCHANGED <<tree_result, tree_calls, tree_latch>>
  /\ CrabFrame

\* internal->RUnlatch()
C_ReleaseParent(t) ==
  /\ walk[t].pc = "release_parent"
  /\ page_latch' = [page_latch EXCEPT ![walk[t].node] = Unlatched(@, t)]
  /\ walk' = [walk EXCEPT ![t].pc = "descend", ![t].node = walk[t].child,
                          ![t].child = INVALID_PAGE_ID]
  /\ TreeUntouched
  /\ UNCHANGED <<tree_result, tree_calls, tree_latch>>
  /\ CrabFrame

\* FindLeafPageForWrite: the writer latches the child and, if the child is
\* safe, releases every page latched before it
C_WriteLatchChild(t) ==
  /\ walk[t].pc = "descend"
  /\ walk[t].pessimistic
  /\ ~IsLeafPage(tree_pages[walk[t].node])
  /\ CanLatch(page_latch[ChildOf(t)], "W")
  /\ IF IsSafe(tree_pages[ChildOf(t)], WriteType(walk[t].op))
     THEN /\ page_latch' =
               [ReleasedPages(page_latch, t, walk[t].latched_pages)
                  EXCEPT ![ChildOf(t)] = Latched(@, t, "W")]
          /\ tree_latch' = IF ReleasesTreeLatch(walk[t].latched_pages)
                           THEN Unlatched(tree_latch, t) ELSE tree_latch
          /\ walk' = [walk EXCEPT ![t].node = ChildOf(t),
                                  ![t].latched_pages = <<ChildOf(t)>>]
     ELSE /\ page_latch' = [page_latch EXCEPT ![ChildOf(t)] = Latched(@, t, "W")]
          /\ tree_latch' = tree_latch
          /\ walk' = [walk EXCEPT ![t].node = ChildOf(t),
                                  ![t].latched_pages = Append(@, ChildOf(t))]
  /\ TreeUntouched
  /\ UNCHANGED <<tree_result, tree_calls>>
  /\ CrabFrame

\* GetValue, Begin and End at the leaf: read it, RUnlatch it, return
C_ReadLeaf(t) ==
  /\ walk[t].pc = "descend"
  /\ walk[t].op \in ReadOps
  /\ IsLeafPage(tree_pages[walk[t].node])
  /\ page_latch' = [page_latch EXCEPT ![walk[t].node] = Unlatched(@, t)]
  /\ LET leaf == tree_pages[walk[t].node]
         index == LowerBound(leaf, walk[t].key)
     IN Returned(t, walk[t].op, walk[t].key,
                 /\ walk[t].op = "GetValue"
                 /\ index < GetSize(leaf)
                 /\ KeyAt(leaf, index) = walk[t].key)
  /\ TreeUntouched
  /\ UNCHANGED <<tree_calls, tree_latch>>
  /\ CrabFrame

\* the leaf the optimistic descent has reached is not safe: the writer gives
\* it up and starts again from the root
C_NotSafe(t) ==
  /\ walk[t].pc = "descend"
  /\ walk[t].op \in WriteOps
  /\ ~walk[t].pessimistic
  /\ IsLeafPage(tree_pages[walk[t].node])
  /\ ~IsSafe(tree_pages[walk[t].node], WriteType(walk[t].op))
  /\ page_latch' = [page_latch EXCEPT ![walk[t].node] = Unlatched(@, t)]
  /\ walk' = [walk EXCEPT ![t].pc = "read_root", ![t].pessimistic = TRUE,
                          ![t].node = INVALID_PAGE_ID]
  /\ TreeUntouched
  /\ UNCHANGED <<tree_result, tree_calls, tree_latch>>
  /\ CrabFrame

\* the pages a call has changed or created
ChangedPages(T) ==
  {id \in DOMAIN T.pages : id \notin DOMAIN tree_pages \/ T.pages[id] # tree_pages[id]}

\* the pages whose entries a call has changed
RewrittenPages(T) ==
  {id \in DOMAIN tree_pages : T.pages[id].array # tree_pages[id].array}

\* what the writer has to wait for inside LeafInsert or LeafRemove: the
\* "latched_pages" source locks tree_latch_ where it changes root_page_id_
\* (GetParent, InternalMerge), the "page_set" source latches the siblings it
\* borrows from or merges with
CanModify(t, T) ==
  IF tree_version = "latched_pages"
  THEN T.root # root_page_id => CanLatch(tree_latch, "W")
  ELSE \A id \in RewrittenPages(T) \cup T.siblings :
         id \in HeldPages(t) \/ CanLatch(page_latch[id], "W")

\* latched_pages after the call: a root created by a split is latched and
\* pushed to the front
LatchedAfter(t, T) ==
  IF T.root # root_page_id /\ T.root >= tree_next_page_id
  THEN <<T.root>> \o walk[t].latched_pages ELSE walk[t].latched_pages

\* the page latches after the call: the new root is latched; the
\* "latched_pages" source unlatches a root it replaces by its child
LatchesAfter(t, T) ==
  [id \in DOMAIN page_latch |->
     IF T.root # root_page_id /\ id = T.root /\ T.root >= tree_next_page_id
     THEN Latched(page_latch[id], t, "W")
     ELSE IF /\ tree_version = "latched_pages"
             /\ T.root # root_page_id /\ T.root < tree_next_page_id
             /\ id = root_page_id
          THEN Unlatched(page_latch[id], t)
          ELSE page_latch[id]]

\* the call has changed the tree to T
Modified(t, T) ==
  /\ T.next <= MaxCrabPages + 1
  /\ CanModify(t, T)
  /\ root_page_id' = T.root
  /\ tree_pages' = T.pages
  /\ tree_next_page_id' = T.next
  /\ deleted_pages' = T.deleted
  /\ page_latch' = LatchesAfter(t, T)
  /\ tree_result' = [tree_result EXCEPT !.abort = T.abort]
  /\ walk' = [walk EXCEPT ![t].pc = "release_all", ![t].ans = T.status,
                          ![t].latched_pages = LatchedAfter(t, T)]

\* LeafInsert or LeafRemove on the leaf the writer has latched: a safe leaf
\* reached by the optimistic descent, or the last of latched_pages
C_Modify(t) ==
  /\ walk[t].pc = "descend"
  /\ walk[t].op \in WriteOps
  /\ ~tree_result.abort
  /\ IsLeafPage(tree_pages[walk[t].node])
  /\ walk[t].pessimistic \/ IsSafe(tree_pages[walk[t].node], WriteType(walk[t].op))
  /\ \E T \in {IF walk[t].op = "Insert"
                THEN LeafInsert(CurTree, walk[t].node, walk[t].key, walk[t].key)
                ELSE LeafRemove(CurTree, walk[t].node, walk[t].key)} :
       Modified(t, T)
  /\ UNCHANGED <<tree_calls, tree_latch>>
  /\ CrabFrame

\* the pages the writer releases at the end of the call
ToRelease(t) ==
  IF walk[t].pessimistic THEN walk[t].latched_pages ELSE <<walk[t].node>>

\* the last loop of Insert and Remove: every latched page is unlatched (and
\* tree_latch_ unlocked with the root page, in the "page_set" source)
\* WUnlatch() or WUnlock() of a latch the thread does not hold is undefined:
\* the latch is left as it was, or in a state in which nobody gets it again
CorruptLatch(l) == [l EXCEPT !.writer = NumCrabThreads + 1]

UnlockedUnheld(l) == {l, CorruptLatch(l)}

\* the pages of the last loop the writer holds no latch on: a root that
\* InternalMerge of the "latched_pages" source has unlatched already
UnlatchedTwice(t) ==
  {ToRelease(t)[i] : i \in 1..Len(ToRelease(t))} \ HeldPages(t)

\* the last loop of the "page_set" source calls tree_latch_.WUnlock() once
\* for every page of latched_pages that IsRootPage()
TreeUnlocks(t) ==
  IF tree_version = "page_set" /\ walk[t].pessimistic
  THEN Cardinality({i \in 1..Len(ToRelease(t)) :
                      IsRootPage(tree_pages[ToRelease(t)[i]])})
  ELSE 0

TreeUnlockedUnheld(t) ==
  TreeUnlocks(t) > IF HoldsLatch(tree_latch, t) THEN 1 ELSE 0

C_ReleaseAll(t) ==
  /\ walk[t].pc = "release_all"
  /\ \E bad \in SUBSET UnlatchedTwice(t) :
       page_latch' = [id \in DOMAIN page_latch |->
                        IF id \in bad THEN CorruptLatch(page_latch[id])
                        ELSE ReleasedPages(page_latch, t, ToRelease(t))[id]]
  /\ tree_latch' \in IF TreeUnlockedUnheld(t)
                     THEN UnlockedUnheld(Unlatched(tree_latch, t))
                     ELSE {IF TreeUnlocks(t) > 0 THEN Unlatched(tree_latch, t)
                           ELSE tree_latch}
  /\ Returned(t, walk[t].op, walk[t].key, walk[t].ans)
  /\ TreeUntouched
  /\ UNCHANGED tree_calls
  /\ CrabFrame

\* the tree after one thread has inserted the keys 1..n in this order
RECURSIVE Prefilled(_)
Prefilled(n) ==
  IF n = 0 THEN TreeOf(INVALID_PAGE_ID, <<>>, 1, {})
  ELSE CHOOSE T \in {TreeInsert(P, n, n) : P \in {Prefilled(n - 1)}} : TRUE

\* the threads start on an empty tree or on one that holds one or NumPrefilled keys,
\* with every latch free
StartsOn(T, n) ==
  /\ root_page_id = T.root
  /\ tree_pages = T.pages
  /\ tree_next_page_id = T.next
  /\ deleted_pages = {}
  /\ tree_result = [op |-> "none", key |-> 0, ans |-> FALSE, abort |-> FALSE,
                    present |-> 1..n, phase |-> "mixed", leaf_size |-> 0,
                    pins |-> NoPins, freed |-> {}]

\* the threads start on a tree that holds the keys 1..n for an n of N
CrabInit(N) ==
  /\ tree_version \in TreeVersions
  /\ \E s \in CrabSizes : leaf_max_size = s.leaf /\ internal_max_size = s.internal
  /\ \E n \in N : \E T \in {Prefilled(n)} : StartsOn(T, n)
  /\ tree_calls = 0
  /\ tree_latch = FreeLatch
  /\ page_latch = [id \in 1..MaxCrabPages |-> FreeLatch]
  /\ walk = [t \in CrabThreads |-> IdleWalk]
  /\ LockUnused
  /\ PoolUnused
  /\ TableUnused

InitCrab == CrabInit({0, 1, NumPrefilled})

CrabStep(t) ==
  \/ C_CreateRoot(t)
  \/ C_LockTree(t)
  \/ C_GetRootPageReturn(t)
  \/ C_LatchRoot(t)
  \/ C_UnlockTree(t)
  \/ C_LatchChild(t)
  \/ C_ReleaseParent(t)
  \/ C_WriteLatchChild(t)
  \/ C_ReadLeaf(t)
  \/ C_NotSafe(t)
  \/ C_Modify(t)
  \/ C_ReleaseAll(t)

NextCrab ==
  \/ \E t \in CrabThreads, op \in ReadOps \cup WriteOps, key \in 0..NumCrabKeys :
       C_Call(t, op, key)
  \/ \E t \in CrabThreads : CrabStep(t)

SpecCrab == InitCrab /\ [][NextCrab]_vars

\* ------------------------------------------- claims on the tree's latches
\* the reader has read root_page_id_ and has not latched the root page yet
BeforeRootLatch(t) == walk[t].pc \in {"root_fetched", "latch_root"}

\* between the start of the descent and the release of the leaf
Descending(t) == walk[t].pc \in {"unlock_tree", "descend", "release_parent"}

\* C29: on the read path (GetValue, Begin, End) the reader holds tree_latch_
\* in shared mode from before it reads root_page_id_ until it holds the latch
\* on the root page; during the descent it holds the child's latch before it
\* releases the parent's, so from the start of the descent to the release of
\* the leaf it holds a latch on the page it stands on.
C29_ReaderAlwaysLatched ==
  \A t \in CrabThreads :
    walk[t].op \in ReadOps =>
      /\ BeforeRootLatch(t) => t \in tree_latch.readers
      /\ Descending(t) => HoldsLatch(page_latch[walk[t].node], t)
      /\ walk[t].pc = "release_parent" => HoldsLatch(page_latch[walk[t].child], t)

\* the writer is on the pessimistic path
OnPessimisticPath(t) == walk[t].op \in WriteOps /\ walk[t].pessimistic

\* the writer has read root_page_id_, or holds the latch it took on the root
\* page in its descent
RootNotReleased(t) ==
  \/ walk[t].pc = "root_fetched"
  \/ /\ walk[t].pc \in {"descend", "release_all"}
     /\ \E i \in 1..Len(walk[t].latched_pages) : walk[t].latched_pages[i] = walk[t].root

\* the step releases pages the writer has latched in its descent
ReleasesAncestors(t) ==
  /\ walk[t].pc = "descend"
  /\ walk'[t].pc = "descend"
  /\ \E i \in 1..Len(walk[t].latched_pages) :
       ~HoldsLatch(page_latch'[walk[t].latched_pages[i]], t)

\* the step is the writer's LeafInsert or LeafRemove
Modifies(t) == walk[t].pc = "descend" /\ walk'[t].pc = "release_all"

\* every page the step changes, and root_page_id_, is under an exclusive latch
\* the writer has held since its descent
CoveredByLatches(t) ==
  /\ \A id \in DOMAIN tree_pages :
       tree_pages'[id] # tree_pages[id] => page_latch[id].writer = t
  /\ root_page_id' # root_page_id => tree_latch.writer = t

\* C30: on the pessimistic write path the writer holds tree_latch_ exclusively
\* from before it latches the root until it releases the root page as a safe
\* ancestor; it releases ancestors only when the child it has just latched is
\* safe; every page, and root_page_id_, that the insert or remove then changes
\* is under an exclusive latch the writer has held since its descent.
C30_WriterCoversChanges ==
  [][\A t \in CrabThreads :
       OnPessimisticPath(t) =>
         /\ RootNotReleased(t) => tree_latch.writer = t
         /\ ReleasesAncestors(t) =>
              IsSafe(tree_pages[walk'[t].node], WriteType(walk[t].op))
         /\ Modifies(t) => CoveredByLatches(t)]_vars

\* ------------------------------------------- claims on the split of a bucket
\* the step is a SplitInsert that finds the bucket of its key full
SplitsFullBucket ==
  /\ \/ table_version = "latched" /\ table_result'.op = "SplitInsert"
     \/ table_version = "unlatched" /\ table_result'.op = "Insert"
  /\ table_result'.next # "abort"
  /\ IsBucket(TableState, KeyToPageId(table_result'.key, TableState))
  /\ IsFull(bucket_pages[KeyToPageId(table_result'.key, TableState)])

\* the local depth of the bucket the step's key belongs to
SplitLocalDepth == local_depths[KeyToDirectoryIndex(table_result'.key, TableState)]

\* the step doubles the directory, or fails because the directory cannot
\* be doubled any more
DoublesDirectory ==
  global_depth' = global_depth + 1 \/ table_result'.next = "overflow"

\* the step splits the bucket: a new bucket page is allocated
SplitsBucket == table_next_page_id' = table_next_page_id + 1

\* C34: an insert that finds its bucket full doubles the directory if and only
\* if the bucket's local depth equals the global depth; with a smaller local
\* depth the bucket is split and the global depth stays as it is.
C34_DoubleIffDepthsEqual ==
  [][SplitsFullBucket =>
       /\ DoublesDirectory <=> SplitLocalDepth = global_depth
       /\ SplitLocalDepth < global_depth =>
            global_depth' = global_depth /\ SplitsBucket]_vars

\* C35: Insert always terminates: its split-and-retry loop comes to an end for
\* every key and every table, also when the split moves no entry and when the
\* directory has its maximum size; no Insert reaches the doubling of a
\* directory that cannot be doubled, from where the loop neither returns nor
\* goes on.
C35_InsertTerminates ==
  table_result.call = "Insert" => table_result.next # "overflow"

\* ------------------------------------- DeletePage of the parallel pool
\* what DeletePage(p) of the instance responsible for p returns in this state
InstanceDeletePage(p) ==
  DeletePgImp_latched(
    WithDisk(bpms, disk, GetBufferPoolManager(page_instance_map, p)), p).ok

\* p is resident in the instance responsible for it, with a positive pin count
ResidentAndPinned(p) ==
  LET b == bpms[GetBufferPoolManager(page_instance_map, p)]
  IN  /\ b.page_table[p] # NO_FRAME
      /\ b.pages[b.page_table[p]].pin_count > 0

\* C39: DeletePage(p) of the parallel pool returns what DeletePage(p) of the
\* responsible instance returns: true when p is not resident or was resident
\* with pin count 0 and got deleted, false only when p is resident and pinned.
C39_DeleteReturnsInstanceResult ==
  [][\A p \in ParPageIds :
       (routed'.op = "DeletePage" /\ routed'.page_id = p)
         => /\ routed'.ok = InstanceDeletePage(p)
            /\ routed'.ok = ~ResidentAndPinned(p)]_vars

\* the instance's own DeletePage keeps the contract of the return value
C39_InstanceResult ==
  \A p \in ParPageIds : InstanceDeletePage(p) = ~ResidentAndPinned(p)

\* ------------------------------------------------------- FlushAllPages
MaxFlushCalls == 5

RECURSIVE FlushAllLoop(_, _)
\* the loop of FlushAllPgsImp over the frames i .. pool_size - 1: the state
\* it leaves and the page ids it handed to WritePage
FlushAllLoop(s, i) ==
  IF i = pool_size THEN [s |-> s, written |-> {}]
  ELSE LET r == FlushAllLoop(FlushPg(s, i), i + 1)
       IN  [r EXCEPT !.written = @ \cup {s.pages[i].page_id}]

\* FlushAllPgsImp of the source over LRUKReplacer: FlushPg of every frame
FlushAllPgsImp(s) == FlushAllLoop(s, 0)

RECURSIVE FlushAllEntries(_, _)
\* FlushAllPgsImp of the sources over LRUReplacer: FlushPgImp of every key of
\* the page table; ps are the keys still to visit
FlushAllEntries(s, ps) ==
  IF ps = {} THEN [s |-> s, written |-> {}]
  ELSE LET p == CHOOSE q \in ps : TRUE
           flushed == IF version = "latched" THEN FlushPgImp_latched(s, p)
                      ELSE FlushPgImp_unlatched(s, p)
           r == FlushAllEntries(flushed.s, ps \ {p})
       IN  IF version = "latched" /\ ~s.pages[s.page_table[p]].is_dirty THEN r
           ELSE [r EXCEPT !.written = @ \cup {p}]

FlushAllPgsImp_page_table(s) ==
  FlushAllEntries(s, {p \in DOMAIN s.page_table : s.page_table[p] # NO_FRAME})

\* the page ids FlushAllPages hands to WritePage in this state
FlushAllWrites ==
  IF version = "lru_k" THEN FlushAllPgsImp(PoolState).written
  ELSE FlushAllPgsImp_page_table(PoolState).written

FlushAllPages ==
  LET r == IF version = "lru_k" THEN FlushAllPgsImp(PoolState)
           ELSE FlushAllPgsImp_page_table(PoolState)
  IN  /\ Call("FlushAllPages", Ret(r.s, TRUE, NO_FRAME, INVALID_PAGE_ID), FALSE)
      /\ round_trip' = [p \in DOMAIN round_trip |->
                          IF /\ page_table[p] # NO_FRAME
                             /\ round_trip[p] = "unpinned"
                          THEN "flushed" ELSE round_trip[p]]
      /\ UNCHANGED durable

\* SpecFlush: the pool of SpecPool with FlushAllPages among its calls
NextFlush ==
  \/ pool_calls < MaxFlushCalls /\ NewPage
  \/ /\ pool_calls < MaxFlushCalls
     /\ \E p \in PageIds : Allocated(p) /\ FetchPage(p)
  \/ pool_calls < MaxFlushCalls /\ \E p \in PageIds, d \in BOOLEAN : UnpinPage(p, d)
  \/ pool_calls < MaxFlushCalls /\ \E p \in PageIds : DeletePage(p)
  \/ /\ pool_calls < MaxFlushCalls
     /\ \E p \in PageIds, v \in 1..MaxData : WriteData(p, v)
  \/ pool_calls < MaxFlushCalls /\ FlushAllPages

SpecFlush == InitPool /\ [][NextFlush]_vars

\* C40: FlushAllPages issues disk writes only for resident pages: it never
\* calls WritePage with INVALID_PAGE_ID, so the frames of the free list are
\* skipped.
C40_FlushAllWritesResident ==
  [][pool_result'.op = "FlushAllPages"
       => \A p \in FlushAllWrites :
            p # INVALID_PAGE_ID /\ page_table[p] # NO_FRAME]_vars

\* the same, of the sources that walk the page table
C40_FlushAllWritesResident_page_table ==
  [][(pool_result'.op = "FlushAllPages" /\ version # "lru_k")
       => \A p \in FlushAllWrites :
            p # INVALID_PAGE_ID /\ page_table[p] # NO_FRAME]_vars

\* ------------------------------------------- deadlock among the mutexes
\* the queues whose mutex the detector may be about to take
NextQueues ==
  {r \in LatchResources \ scanned :
     r.on_table \/ \A x \in LatchResources : x.on_table => x \in scanned}

\* the map latches and queue mutexes thread th stands before at its position:
\* its next step is lock() of one of them
Wants(th) ==
  IF th = Detector
  THEN CASE pc[th] = "idle" -> {TableMapLatch}
         [] pc[th] = "table_latched" -> {RowMapLatch}
         [] pc[th] = "build" -> {QueueLatch(r) : r \in NextQueues}
         [] OTHER -> {}
  ELSE CASE pc[th] = "queue" -> {QueueLatch(cur[th].r)}
         [] pc[th] = "upgrade" -> {MapLatch(cur[th].r)}
         [] pc[th] = "woken" -> {QueueLatch(waiting[th])}
         [] OTHER -> {}

\* a waits for a mutex b holds
WaitsOn(a, b) == \E l \in Wants(a) : Holding(b, l)

\* the detector, with the map latches, stands before the mutex of a
\* transaction it has chosen as a victim, and the thread of that transaction
\* holds the mutex in the upgrade path
WaitsOnTxnLatch(t) ==
  /\ pc[Detector] = "build" /\ scanned = LatchResources
  /\ TxnLatched(t)
  /\ \E i \in DOMAIN DetectLoop(waits_for, <<>>).victims :
       DetectLoop(waits_for, <<>>).victims[i] = t

\* C36: the mutexes of the lock manager never deadlock: in no state does a
\* thread in the upgrade path of LockTable wait for a mutex the detector
\* holds while the detector waits for a mutex that thread holds (nor any
\* two threads for each other's).
C36_NoMutexDeadlock ==
  \A a \in Threads : \A b \in Threads \ {a} :
    ~(/\ WaitsOn(a, b)
      /\ WaitsOn(b, a) \/ (b = Detector /\ WaitsOnTxnLatch(a)))

\* the threads of the transactions never wait for each other's mutexes
C36_WorkersNoMutexDeadlock ==
  \A a \in LatchTxns : \A b \in LatchTxns \ {a} :
    ~(WaitsOn(a, b) /\ WaitsOn(b, a))

\* ------------------------------------------ row locks under a table lock
\* transaction t waits for the upgrade of its lock on the table of row r
UpgradingTable(t, r) ==
  /\ upgrading[[on_table |-> TRUE, oid |-> r.oid, rid |-> 0]] = t
  /\ waiting[t] = [on_table |-> TRUE, oid |-> r.oid, rid |-> 0]

\* C37: a transaction whose row lock sets hold a row of table t holds a
\* granted lock on t (X, IX or SIX if it holds the row in X), also while it
\* is blocked waiting for an upgrade of its lock on t.
C37_RowsUnderTableLock ==
  \A t \in Txns, r \in RowRes, m \in {"S", "X"} :
    Holds(t, r, m) => TableLockPresent(t, m, r)

\* the rows of a transaction are under a table lock except while an upgrade
\* of that lock is under way, and after the transaction was aborted in it
C37_RowsUnderTableLockOrUpgrade ==
  \A t \in Txns, r \in RowRes, m \in {"S", "X"} :
    Holds(t, r, m)
      => TableLockPresent(t, m, r) \/ UpgradingTable(t, r) \/ state[t] = "ABORTED"

\* --------------------------------------- what a reader of the tree observes
\* the pages a reader stands on: the page it has fetched and, while it
\* crabs, the child
ReaderPages(t) ==
  {walk[t].node, walk[t].child} \ {INVALID_PAGE_ID}

\* thread t is a reader between the latching of the root page and the
\* release of the leaf
Reading(t) == walk[t].op \in ReadOps /\ Descending(t)

\* GetValue(k) of thread t returns in this step
GetValueReturns(t) ==
  /\ walk[t].op = "GetValue"
  /\ walk[t].pc = "descend"
  /\ walk'[t].pc = "idle"

\* the step leaves the pages of every reader as they are: none of them is
\* split, borrowed from, merged or handed to DeletePage under the reader
ReaderPagesStable(t) ==
  \A id \in ReaderPages(t) :
    /\ tree_pages'[id].array = tree_pages[id].array
    /\ id \in deleted_pages' <=> id \in deleted_pages

\* the answer of a GetValue(k) that ran beside no Insert or Remove of k
AnswersPresence(t) ==
  (GetValueReturns(t) /\ ~walk[t].overlapped)
    => (tree_result'.ans <=> walk[t].key \in tree_result.present)

\* the pages a reader stands on are in the tree, not deleted
ReaderPagesLive(t) == \A id \in ReaderPages(t) : id \notin deleted_pages

\* C31: a reader beside inserts and removes observes a consistent tree: a
\* GetValue(k) that overlaps only operations on other keys returns true if k
\* is in the tree and false if it is not; no reader inspects a page it has
\* not latched, a page that was deleted, or a page in the middle of a split,
\* borrow or merge.
C31_ReaderConsistent ==
  [][\A t \in CrabThreads :
       /\ AnswersPresence(t)
       /\ Reading(t) => ReaderPagesLive(t) /\ ReaderPagesStable(t)
       /\ (walk[t].op \in ReadOps /\ Descending(t))
            => HoldsLatch(page_latch[walk[t].node], t)]_vars

\* its parts
C31_AnswersPresence == [][\A t \in CrabThreads : AnswersPresence(t)]_vars

C31_PagesLive ==
  \A t \in CrabThreads : Reading(t) => ReaderPagesLive(t)

C31_PagesStable ==
  [][\A t \in CrabThreads : Reading(t) => ReaderPagesStable(t)]_vars

\* the same statements of the "page_set" source
C31_ReaderConsistent_page_set ==
  [][tree_version = "page_set" =>
       \A t \in CrabThreads :
         /\ AnswersPresence(t)
         /\ Reading(t) => ReaderPagesLive(t) /\ ReaderPagesStable(t)]_vars

\* ------------------------------------------- every call returns (SpecCrabFair)
\* the keys the threads of the fair specification pass
FairKeys == {1, 3, 6}
NumFairPrefilled == 2

\* LeafInsert or LeafRemove can go on: the pages and the latch it waits for
\* are available
ModifyReady(t) ==
  /\ ~tree_result.abort
  /\ \E T \in {IF walk[t].op = "Insert"
                THEN LeafInsert(CurTree, walk[t].node, walk[t].key, walk[t].key)
                ELSE LeafRemove(CurTree, walk[t].node, walk[t].key)} :
       T.next <= MaxCrabPages + 1 /\ CanModify(t, T)

\* thread t is inside a call and not waiting for a latch: its next step can
\* be taken
CanStep(t) ==
  LET w == walk[t]
  IN CASE w.pc = "create_root" ->
            CanLatch(tree_latch, "W") /\ tree_next_page_id <= MaxCrabPages
       [] w.pc = "read_root" -> CanLatch(tree_latch, TreeLatchMode(t))
       [] w.pc = "root_fetched" ->
            \/ tree_version = "latched_pages"
            \/ CanLatch(page_latch[w.node], LatchMode(t, w.node))
       [] w.pc = "latch_root" ->
            /\ tree_version = "latched_pages"
            /\ CanLatch(page_latch[w.node], LatchMode(t, w.node))
       [] w.pc = "descend" ->
            IF ~IsLeafPage(tree_pages[w.node])
            THEN CanLatch(page_latch[ChildOf(t)], LatchMode(t, ChildOf(t)))
            ELSE \/ w.op \in ReadOps
                 \/ ~w.pessimistic /\ ~IsSafe(tree_pages[w.node], WriteType(w.op))
                 \/ ModifyReady(t)
       [] w.pc \in {"unlock_tree", "release_parent", "release_all"} -> TRUE
       [] OTHER -> FALSE

\* the steps of a call other than LeafInsert and LeafRemove
LatchStep(t) ==
  \/ C_CreateRoot(t)
  \/ C_LockTree(t)
  \/ C_GetRootPageReturn(t)
  \/ C_LatchRoot(t)
  \/ C_UnlockTree(t)
  \/ C_LatchChild(t)
  \/ C_ReleaseParent(t)
  \/ C_WriteLatchChild(t)
  \/ C_ReadLeaf(t)
  \/ C_NotSafe(t)
  \/ C_ReleaseAll(t)

\* thread t stands at its leaf and LeafInsert or LeafRemove can go on
CanModifyNow(t) ==
  /\ walk[t].pc = "descend"
  /\ walk[t].op \in WriteOps
  /\ IsLeafPage(tree_pages[walk[t].node])
  /\ walk[t].pessimistic \/ IsSafe(tree_pages[walk[t].node], WriteType(walk[t].op))
  /\ ModifyReady(t)

\* weak fairness of C_Modify(t), with the states in which the step can be
\* taken written out
ModifyFair(t) == []<>(~CanModifyNow(t)) \/ []<><<C_Modify(t)>>_vars

\* the scheduler runs every thread: a thread whose next step can be taken
\* from some point on takes it
ThreadFair(t) == WF_vars(LatchStep(t)) /\ ModifyFair(t)

NextCrabFair ==
  \/ \E t \in CrabThreads, op \in {"GetValue", "Insert", "Remove"}, key \in FairKeys :
       C_Call(t, op, key)
  \/ \E t \in CrabThreads : CrabStep(t)

InitCrabFair == CrabInit({0, NumFairPrefilled, NumPrefilled})

SpecCrabFair ==
  InitCrabFair /\ [][NextCrabFair]_vars /\ \A t \in CrabThreads : ThreadFair(t)

\* C38: the latching of the tree is free of deadlock: under fair scheduling
\* every GetValue, Insert and Remove a thread has called returns
C38_CallsReturn ==
  \A t \in CrabThreads : (walk[t].pc # "idle") ~> (walk[t].pc = "idle")

\* a latch has been unlocked by a thread that did not hold it and has been
\* left unusable
Corrupted(l) == l.writer \notin CrabThreads \cup {0}

SomeLatchCorrupted ==
  Corrupted(tree_latch) \/ \E id \in DOMAIN page_latch : Corrupted(page_latch[id])

\* a writer on the pessimistic path stands at its leaf and waits: for the
\* latch of a sibling, or for tree_latch_ to install the new root
C38_WriterWaits ==
  \E t \in CrabThreads :
    /\ walk[t].pc = "descend" /\ walk[t].pessimistic
    /\ IsLeafPage(tree_pages[walk[t].node])
    /\ ~CanStep(t)

\* as long as no latch is unlocked by a thread that does not hold it, the
\* waiting ends: every call returns
C38_CallsReturnUnlessCorrupted ==
  \A t \in CrabThreads :
    (walk[t].pc # "idle") ~> (walk[t].pc = "idle" \/ SomeLatchCorrupted)

\* no two threads wait for a latch the other holds
C38_NoStandstill ==
  (\E t \in CrabThreads : walk[t].pc # "idle")
    => \/ \E t \in CrabThreads : CanStep(t)
       \/ SomeLatchCorrupted

\* ---------------------------------------------------------------------------
\* Pin accounting and page reclamation of the B+-tree
\* ---------------------------------------------------------------------------

\* C32: pin accounting is balanced: after a GetValue, an Insert or a Remove
\* has returned (duplicate key, absent key, empty tree, split, borrow, merge
\* and new root included) every page has the pin count it had before the
\* call, which is 0 when no other call is in flight.
C32_PinsBalanced == tree_result.pins = NoPins

\* The tree of part_005 unpins the root leaf it creates, and every other page
\* it fetches, on every path.
C32_PinsBalanced_page_set ==
  tree_version = "page_set" => tree_result.pins = NoPins

\* The tree of b_plus_tree.cpp leaks one pin and no other on a page: the pin
\* NewPage puts on the leaf that Insert creates for an empty tree.
C32_LeakedPins ==
  tree_version = "latched_pages"
    => \A id \in DOMAIN tree_result.pins :
         /\ tree_result.pins[id] = 1
         /\ IsLeafPage(tree_pages[id])

\* C33: when two siblings are merged, the right page's entries move into the
\* left page, the parent entry of the right page is removed and the right
\* page is deleted from the buffer pool, so after a Remove no page that is
\* unreachable from the root remains allocated.
C33_NoUnreachablePage ==
  ~tree_result.abort
    => \A id \in 1..(tree_next_page_id - 1) :
         id \in LivePages \/ id \in tree_result.freed

\* The tree of b_plus_tree.cpp never takes a page out of the buffer pool: a
\* merge does not call DeletePage for the right page, and the DeletePage of a
\* former root finds the page pinned.
C33_NothingDeleted ==
  tree_version = "latched_pages" => tree_result.freed = {}

\* The tree of part_005 deletes exactly the pages its merges have put into
\* the deleted page set.
C33_DeletedPageSetFreed ==
  tree_version = "page_set" => deleted_pages = tree_result.freed

====
